---- MODULE Spec2Model ----
(***************************************************************************)
(* A model of sashay, the OpenAPI 3.0 generator: the registry (Sashay),    *)
(* its data type rules, the struct walker, the component collector and the *)
(* YAML builders.                                                          *)
(*                                                                         *)
(* Go strings whose characters the code inspects (paths, methods, type and *)
(* field names, json tags, response codes, ObjectFields keys) are          *)
(* sequences of ASCII codes; strings the code only copies (summaries,      *)
(* descriptions, tag values, ObjectFields values, content types) and       *)
(* format strings are TLA+ strings.  A written line is the triple          *)
(* <<indent, format, args>> handed to writeLn.                             *)
(***************************************************************************)
EXTENDS Integers, Sequences, FiniteSets, TLC

VARIABLES sa, yaml, dest, buf, route, walk, added

vars == <<sa, yaml, dest, buf, route, walk, added>>

(***************************************************************************)
(* Bounds of the model.                                                    *)
(***************************************************************************)
MaxOps == 2

(***************************************************************************)
(* Go string and slice primitives.                                         *)
(***************************************************************************)
\* F(x), with x evaluated once, before F is applied.
Strict(F(_), x) == CHOOSE res \in {F(v) : v \in {x}} : TRUE

\* s < t on Go strings: bytewise lexicographic order.
RECURSIVE StrLess(_, _)
StrLess(s, t) ==
    IF t = <<>> THEN FALSE
    ELSE IF s = <<>> THEN TRUE
    ELSE IF s[1] # t[1] THEN s[1] < t[1]
    ELSE StrLess(Tail(s), Tail(t))

\* strings.ToLower on ASCII.
ToLower(s) == [i \in 1..Len(s) |-> IF s[i] >= 65 /\ s[i] <= 90 THEN s[i] + 32 ELSE s[i]]

\* strings.ToUpper on ASCII.
ToUpper(s) == [i \in 1..Len(s) |-> IF s[i] >= 97 /\ s[i] <= 122 THEN s[i] - 32 ELSE s[i]]

\* [A-Za-z0-9]
IsAlnum(c) == (c >= 48 /\ c <= 57) \/ (c >= 65 /\ c <= 90) \/ (c >= 97 /\ c <= 122)

\* strings.Split(s, sep) for a one-byte separator: always at least one piece.
RECURSIVE SplitFrom(_, _, _)
SplitFrom(s, sep, cur) ==
    IF s = <<>> THEN <<cur>>
    ELSE IF s[1] = sep THEN <<cur>> \o SplitFrom(Tail(s), sep, <<>>)
    ELSE SplitFrom(Tail(s), sep, Append(cur, s[1]))

Split(s, sep) == SplitFrom(s, sep, <<>>)

\* strings.Replace(s, old, new, -1) for one-byte old and new.
ReplaceByte(s, old, new) == [i \in 1..Len(s) |-> IF s[i] = old THEN new ELSE s[i]]

\* strings.Trim(s, cutset) for a one-byte cutset.
RECURSIVE TrimLeft(_, _)
TrimLeft(s, c) == IF s # <<>> /\ s[1] = c THEN TrimLeft(Tail(s), c) ELSE s

RECURSIVE TrimRight(_, _)
TrimRight(s, c) ==
    IF s # <<>> /\ s[Len(s)] = c THEN TrimRight(SubSeq(s, 1, Len(s) - 1), c) ELSE s

Trim(s, c) == TrimRight(TrimLeft(s, c), c)

\* strconv.Itoa for n >= 0.
RECURSIVE Itoa(_)
Itoa(n) == IF n < 10 THEN <<48 + n>> ELSE Append(Itoa(n \div 10), 48 + (n % 10))

\* The concatenation of a sequence of sequences.
Flatten(ss) ==
    LET Cat(v) == LET F[i \in 0..Len(v)] == IF i = 0 THEN <<>> ELSE F[i - 1] \o v[i]
                  IN F[Len(v)]
    IN Strict(Cat, ss)

\* The elements of a sequence that satisfy Keep, in order.
SelectIdx(s, Keep(_)) ==
    LET F[i \in 0..Len(s)] ==
            IF i = 0 THEN <<>>
            ELSE IF Keep(i) THEN Append(F[i - 1], s[i]) ELSE F[i - 1]
    IN F[Len(s)]

\* Insertion sort by Less, the algorithm sort.Slice and sort.Sort run on
\* slices of fewer than 12 elements: an element moves left past every
\* element that it is Less than.
InsertSorted(sorted, x, Less(_, _)) ==
    LET Into(v) ==
            LET n == Len(v)
                j == CHOOSE k \in 0..n :
                         /\ \A i \in (k + 1)..n : Less(x, v[i])
                         /\ (k = 0 \/ ~Less(x, v[k]))
            IN SubSeq(v, 1, j) \o <<x>> \o SubSeq(v, j + 1, n)
    IN Strict(Into, sorted)

InsertionSort(s, Less(_, _)) ==
    LET Sort(v) ==
            LET F[i \in 0..Len(v)] ==
                    IF i = 0 THEN <<>> ELSE InsertSorted(F[i - 1], v[i], Less)
            IN F[Len(v)]
    IN Strict(Sort, s)

(***************************************************************************)
(* reflect.Type, reflect.StructField and struct tags.                      *)
(***************************************************************************)
NoType == [kind |-> "invalid", name |-> <<>>, pkg |-> ""]

\* A predeclared type: its name is its kind's name, it has no package path.
BuiltinType(k, n) == [kind |-> k, name |-> n, pkg |-> ""]

\* type <n> <k>, declared in package main.
NamedType(k, n) == [kind |-> k, name |-> n, pkg |-> "main"]

\* type <n> struct { fs }, declared in package p; n = <<>> and p = "" for a
\* struct type literal.
StructType(n, p, fs) == [kind |-> "struct", name |-> n, pkg |-> p, fields |-> fs]

SliceOf(t) == [kind |-> "slice", name |-> <<>>, pkg |-> "", elem |-> t]

PtrTo(t) == [kind |-> "ptr", name |-> <<>>, pkg |-> "", elem |-> t]

NoTag == [json |-> <<>>, path |-> "", query |-> "", header |-> "",
          description |-> "", default |-> ""]

JSONTag(j) == [NoTag EXCEPT !.json = j]

NoStructField == [Name |-> <<>>, Anonymous |-> FALSE, Type |-> NoType, Tag |-> NoTag]

\* A named struct field.
SF(n, t, tag) == [Name |-> n, Anonymous |-> FALSE, Type |-> t, Tag |-> tag]

\* An embedded struct field: its name is the name of its type.
Embedded(t) == [Name |-> t.name, Anonymous |-> TRUE, Type |-> t, Tag |-> NoTag]

(***************************************************************************)
(* Field.                                                                  *)
(***************************************************************************)
\* Field{}: what NewField returns for nil.
NilField == [Nil |-> TRUE, Type |-> NoType, Kind |-> "invalid", Value |-> NoType,
             StructField |-> NoStructField, FromStructField |-> FALSE]

\* newField for a (zero) value of type t.  Value is the type of the value the
\* Field keeps in Interface and Value: t itself, pointer or not.
newField(t, deference, hasField, field) ==
    LET tt == IF deference /\ t.kind = "ptr" THEN t.elem ELSE t
    IN [Nil |-> FALSE, Type |-> tt, Kind |-> tt.kind, Value |-> t,
        StructField |-> IF hasField THEN field ELSE NoStructField,
        FromStructField |-> hasField]

\* Whether the zero value of type t, held in an interface{}, is nil: NoType
\* stands for the untyped nil, and the zero value of an interface type is nil.
IsNilValue(t) == t.kind \in {"invalid", "interface"}

\* NewField(v) for the zero value v of type t.
NewField(t) == IF IsNilValue(t) THEN NilField ELSE newField(t, TRUE, FALSE, NoStructField)

\* NewField(v, field).
NewFieldOf(t, field) == IF IsNilValue(t) THEN NilField ELSE newField(t, TRUE, TRUE, field)

\* ZeroSliceValueField(t): the Field of one element of a slice of type t.
ZeroSliceValueField(t) == NewField(t.elem)

(***************************************************************************)
(* ObjectFields and DataTypers.  A DataTyper is a record naming the        *)
(* function and what it closes over; CallDataTyper applies it.             *)
(***************************************************************************)
K_type == <<116,121,112,101>>                       \* "type"
K_format == <<102,111,114,109,97,116>>              \* "format"
K_nullable == <<110,117,108,108,97,98,108,101>>     \* "nullable"
K_default == <<100,101,102,97,117,108,116>>         \* "default"

NoObjectFields == [k \in {} |-> ""]

\* of[k] = v
SetKey(of, k, v) == [x \in (DOMAIN of) \cup {k} |-> IF x = k THEN v ELSE of[x]]

\* The order ObjectFields.Sorted sorts by: "type" first, the rest by key.
SortedLess(keyI, keyJ) ==
    IF keyI = K_type THEN TRUE
    ELSE IF keyJ = K_type THEN FALSE
    ELSE StrLess(keyI, keyJ)

\* ObjectFields.Sorted: the {key, value} tuples in that order.  The keys of
\* a map are distinct, so the order map iteration hands them to the sort in
\* does not show in the result.
RECURSIVE SortedKeys(_)
SortedKeys(ks) ==
    IF ks = {} THEN <<>>
    ELSE LET first == CHOOSE k \in ks : \A j \in ks \ {k} : SortedLess(k, j)
         IN <<first>> \o SortedKeys(ks \ {first})

Sorted(of) == LET ks == SortedKeys(DOMAIN of) IN [i \in 1..Len(ks) |-> <<ks[i], of[ks[i]]>>]

SimpleDataTyper(swaggerType, format) ==
    [fn |-> "SimpleDataTyper", type |-> swaggerType, format |-> format]

DefaultDataTyper == [fn |-> "DefaultDataTyper"]

noopDataTyper == [fn |-> "noopDataTyper"]

ChainDataTyper(typers) == [fn |-> "ChainDataTyper", typers |-> typers]

\* CallSimple that writes nullable for every Field made from a pointer.
CallSimple_ValuePointer(dt, f, of) ==
    LET of1 == SetKey(of, K_type, dt.type)
        of2 == IF dt.format # "" THEN SetKey(of1, K_format, dt.format) ELSE of1
    IN IF f.Value.kind = "ptr" THEN SetKey(of2, K_nullable, "true") ELSE of2

\* The body of the function SimpleDataTyper returns.
CallSimple(dt, f, of) ==
    LET of1 == SetKey(of, K_type, dt.type)
        of2 == IF dt.format # "" THEN SetKey(of1, K_format, dt.format) ELSE of1
    IN IF f.Kind = "ptr" THEN SetKey(of2, K_nullable, "true") ELSE of2

\* The body of the function DefaultDataTyper returns.
CallDefault(f, of) ==
    IF f.StructField.Tag.default # "" THEN SetKey(of, K_default, f.StructField.Tag.default)
    ELSE of

\* dt(f, of): the ObjectFields after the call.
RECURSIVE CallDataTyper(_, _, _)
CallDataTyper(dt, f, of) ==
    CASE dt.fn = "SimpleDataTyper" -> CallSimple(dt, f, of)
      [] dt.fn = "DefaultDataTyper" -> CallDefault(f, of)
      [] dt.fn = "noopDataTyper" -> of
      [] dt.fn = "ChainDataTyper" ->
            LET F[i \in 0..Len(dt.typers)] ==
                    IF i = 0 THEN of ELSE CallDataTyper(dt.typers[i], f, F[i - 1])
            IN F[Len(dt.typers)]

(***************************************************************************)
(* The predeclared types and time.Time.                                    *)
(***************************************************************************)
TInt == BuiltinType("int", <<105,110,116>>)
TInt64 == BuiltinType("int64", <<105,110,116,54,52>>)
TInt32 == BuiltinType("int32", <<105,110,116,51,50>>)
TString == BuiltinType("string", <<115,116,114,105,110,103>>)
TBool == BuiltinType("bool", <<98,111,111,108>>)
TFloat64 == BuiltinType("float64", <<102,108,111,97,116,54,52>>)
TFloat32 == BuiltinType("float32", <<102,108,111,97,116,51,50>>)
TUint64 == BuiltinType("uint64", <<117,105,110,116,54,52>>)

\* time.Location, as far as the walker can see it: its fields are unexported.
TLocation ==
    [kind |-> "struct", name |-> <<76,111,99,97,116,105,111,110>>, pkg |-> "time",
     fields |-> << SF(<<110,97,109,101>>, TString, NoTag) >>]

\* time.Time: struct { wall uint64; ext int64; loc *Location }.
TTime ==
    [kind |-> "struct", name |-> <<84,105,109,101>>, pkg |-> "time",
     fields |-> << SF(<<119,97,108,108>>, TUint64, NoTag),
                   SF(<<101,120,116>>, TInt64, NoTag),
                   SF(<<108,111,99>>, PtrTo(TLocation), NoTag) >>]

BuiltinDataTypeValues == <<TInt, TInt64, TInt32, TString, TBool, TFloat64, TFloat32, TTime>>

\* BuiltinDataTyperFor(value, chained...): the type switch is on the exact
\* type of value, value or pointer.
BuiltinDataTyperFor(t, chained) ==
    LET dt == CASE t \in {TInt, TInt64, PtrTo(TInt), PtrTo(TInt64)} ->
                        SimpleDataTyper("integer", "int64")
                [] t \in {TInt32, PtrTo(TInt32)} -> SimpleDataTyper("integer", "int32")
                [] t \in {TString, PtrTo(TString)} -> SimpleDataTyper("string", "")
                [] t \in {TBool, PtrTo(TBool)} -> SimpleDataTyper("boolean", "")
                [] t \in {TFloat64, PtrTo(TFloat64)} -> SimpleDataTyper("number", "double")
                [] t \in {TFloat32, PtrTo(TFloat32)} -> SimpleDataTyper("number", "float")
                [] t \in {TTime, PtrTo(TTime)} -> SimpleDataTyper("string", "date-time")
                [] OTHER -> noopDataTyper
    IN ChainDataTyper(<<dt, DefaultDataTyper>> \o chained)

(***************************************************************************)
(* The registry's data type rules.                                         *)
(***************************************************************************)
\* m[k] = v on a Go map.
MapSet(m, k, v) == [x \in (DOMAIN m) \cup {k} |-> IF x = k THEN v ELSE m[x]]

EmptyMap == [k \in {} |-> NoType]

KindsWithRules ==
    {"bool", "int", "int8", "int16", "int32", "int64",
     "uint", "uint8", "uint16", "uint32", "uint64", "float32", "float64", "string"}

\* defineDataTypeForKind: dataTypesForKinds after the call.
defineDataTypeForKind(kinds, kind, def) ==
    IF kind \in KindsWithRules THEN MapSet(kinds, kind, def) ELSE kinds

\* DefineDataType(i, dt) for a value i of type t: the registry after the call.
DefineDataTypeOn(s, t, dt) ==
    LET f == NewField(t)
        def == [Field |-> f, DataTyper |-> dt]
        types1 == MapSet(s.dataTypesForTypes, f.Type, def)
        ptrF == newField(PtrTo(f.Type), FALSE, FALSE, NoStructField)
        types2 == IF f.Kind # "ptr"
                  THEN MapSet(types1, ptrF.Type, [Field |-> ptrF, DataTyper |-> dt])
                  ELSE types1
    IN [s EXCEPT !.dataTypesForTypes = types2,
                 !.dataTypesForKinds = defineDataTypeForKind(s.dataTypesForKinds, f.Kind, def)]

\* dataTypeDefFor that looks at the kind before the exact type.
dataTypeDefFor_KindFirst(s, f) ==
    IF f.Kind \in DOMAIN s.dataTypesForKinds
    THEN [found |-> TRUE, def |-> s.dataTypesForKinds[f.Kind]]
    ELSE IF f.Type \in DOMAIN s.dataTypesForTypes
    THEN [found |-> TRUE, def |-> s.dataTypesForTypes[f.Type]]
    ELSE [found |-> FALSE, def |-> [Field |-> NilField, DataTyper |-> noopDataTyper]]

\* dataTypeDefFor(f): exact type first, kind second.
dataTypeDefFor(s, f) ==
    IF f.Type \in DOMAIN s.dataTypesForTypes
    THEN [found |-> TRUE, def |-> s.dataTypesForTypes[f.Type]]
    ELSE IF f.Kind \in DOMAIN s.dataTypesForKinds
    THEN [found |-> TRUE, def |-> s.dataTypesForKinds[f.Kind]]
    ELSE [found |-> FALSE, def |-> [Field |-> NilField, DataTyper |-> noopDataTyper]]

isMappedToDataType(s, f) == f.Type \in DOMAIN s.dataTypesForTypes

\* New(title, description, version).
New(title, description, version) ==
    LET empty == [DefaultContentType |-> "application/json",
                  title |-> title, desc |-> description, version |-> version,
                  operations |-> <<>>, servers |-> <<>>, securities |-> <<>>,
                  tos |-> "", contactName |-> "", contactURL |-> "", contactEmail |-> "",
                  licenseName |-> "", licenseURL |-> "", tags |-> <<>>,
                  dataTypesForTypes |-> EmptyMap, dataTypesForKinds |-> EmptyMap]
        F[i \in 0..Len(BuiltinDataTypeValues)] ==
            IF i = 0 THEN empty
            ELSE DefineDataTypeOn(F[i - 1], BuiltinDataTypeValues[i],
                                  BuiltinDataTyperFor(BuiltinDataTypeValues[i], <<>>))
    IN F[Len(BuiltinDataTypeValues)]

(***************************************************************************)
(* Walking structs.                                                        *)
(***************************************************************************)
\* isExportedName(s): the last dot-separated part starts with A..Z.  The code
\* panics on the empty string; callers never pass it.
isExportedName(s) ==
    LET parts == Split(s, 46)
        c == parts[Len(parts)][1]
    IN c >= 65 /\ c <= 90

isExportedField(f) == IF f.Name = <<>> \/ f.Anonymous THEN TRUE ELSE isExportedName(f.Name)

\* The fields of the struct types of the struct fields emb, in order.
FieldsOfAll(emb) == Flatten([i \in 1..Len(emb) |-> emb[i].Type.fields])

\* The struct fields of struct type t at embedding depth d, as
\* reflect.Value.FieldByName searches them: depth 0 holds t's own fields,
\* depth d+1 the fields of the embedded structs of depth d.
RECURSIVE FieldsAtDepth(_, _)
FieldsAtDepth(t, d) ==
    IF d = 0 THEN t.fields
    ELSE FieldsOfAll(SelectSeq(FieldsAtDepth(t, d - 1),
                               LAMBDA sf : sf.Anonymous /\ sf.Type.kind = "struct"))

\* The type of structValue.FieldByName(name) for a value of struct type t:
\* the field of that name at the shallowest depth that has one; NoType (the
\* zero Value) when there is none or that depth has several.
RECURSIVE FieldByNameFrom(_, _, _)
\* The search at depth d, whose fields are fs.
FieldByNameAmong(t, name, d, fs) ==
    LET hits == SelectSeq(fs, LAMBDA sf : sf.Name = name)
    IN IF fs = <<>> THEN NoType
       ELSE IF Len(hits) = 1 THEN hits[1].Type
       ELSE IF Len(hits) > 1 THEN NoType
       ELSE FieldByNameFrom(t, name, d + 1)

FieldByNameFrom(t, name, d) == FieldByNameAmong(t, name, d, FieldsAtDepth(t, d))

FieldByName(t, name) == FieldByNameFrom(t, name, 0)

\* What stands in a Fields for a panic of the walk: fieldType.NumField() of a
\* type that is no struct, or CanInterface of the zero Value FieldByName
\* returns when it finds no single field.
PanicField == [Nil |-> FALSE, Type |-> NoType, Kind |-> "panic", Value |-> NoType,
               StructField |-> NoStructField, FromStructField |-> FALSE]

HasPanic(fs) == \E i \in 1..Len(fs) : fs[i].Kind = "panic"

\* enumerateStructFieldsInner(fieldType, origStructValue), for a struct value
\* of type valueType: the visible fields, embedded structs spliced in.  Every
\* value is the zero value of its type, so a field's Field is built from the
\* type of the value FieldByName finds.
RECURSIVE enumerateStructFieldsInner(_, _)
\* What the loop appends for a field fieldDef whose value FieldByName finds
\* of type t.
enumerateFound(fieldDef, t) ==
    IF t = NoType THEN <<PanicField>> ELSE << NewFieldOf(t, fieldDef) >>

\* The body of the loop, for the field fieldDef of fieldType.
enumerateStructField(fieldDef, valueType) ==
    IF ~isExportedField(fieldDef) THEN <<>>
    ELSE IF fieldDef.Anonymous
    THEN enumerateStructFieldsInner(fieldDef.Type, valueType)
    ELSE enumerateFound(fieldDef, FieldByName(valueType, fieldDef.Name))

enumerateStructFieldsInner(fieldType, valueType) ==
    IF fieldType.kind # "struct" THEN <<PanicField>>
    ELSE Flatten([i \in 1..Len(fieldType.fields) |->
                     enumerateStructField(fieldType.fields[i], valueType)])

\* enumerateStructFields(field): a pointer Value is replaced by the zero value
\* of field.Type, so the walk starts from a value of type field.Type.
enumerateStructFields(field) == enumerateStructFieldsInner(field.Type, field.Type)

(***************************************************************************)
(* Operation, Response, Method, Path, OperationID.                         *)
(***************************************************************************)
\* What an interface{} argument (Params, ReturnOk, ReturnErr) holds: a
\* Response, a Responses, or the zero value of some type (NoType for nil).
AsValue(t) == [is |-> "value", type |-> t]
AsResponse(r) == [is |-> "Response", resp |-> r]
AsResponses(rs) == [is |-> "Responses", resps |-> rs]

DefaultCode == <<100,101,102,97,117,108,116>>    \* "default"

\* NewResponse(code, description, shape) for a shape of type shapeType.
NewResponse(code, description, shapeType) ==
    [Code |-> IF code = -1 THEN DefaultCode ELSE Itoa(code),
     Description |-> description,
     Field |-> NewField(shapeType)]

NewMethod(s) == ToLower(s)

\* The length of the longest run of [A-Za-z0-9] that starts s.
RECURSIVE AlnumRun(_)
AlnumRun(s) == IF s # <<>> /\ IsAlnum(s[1]) THEN 1 + AlnumRun(Tail(s)) ELSE 0

\* swaggerPathReplace.ReplaceAllString(s, "/{$1}") for the pattern
\* /:([A-Za-z0-9]+): leftmost matches, each as long as it can be.
RECURSIVE NewPath(_)
NewPath(s) ==
    IF s = <<>> THEN <<>>
    ELSE IF Len(s) >= 3 /\ s[1] = 47 /\ s[2] = 58 /\ IsAlnum(s[3])
    THEN LET n == AlnumRun(SubSeq(s, 3, Len(s)))
         IN <<47, 123>> \o SubSeq(s, 3, 2 + n) \o <<125>> \o NewPath(SubSeq(s, 3 + n, Len(s)))
    ELSE <<s[1]>> \o NewPath(Tail(s))

\* operationIDPathClean.ReplaceAllString(path, ""): drops every byte outside
\* [A-Za-z0-9_].
operationIDPathClean(path) == SelectSeq(path, LAMBDA c : IsAlnum(c) \/ c = 95)

\* The pieces NewOperationID title-cases.
OperationIDPieces(path) ==
    Split(Trim(operationIDPathClean(ReplaceByte(ReplaceByte(path, 47, 95), 45, 95)), 95), 95)

\* piece[0:1] is out of range for an empty piece: NewOperationID panics.
NewOperationIDPanics(op) ==
    LET pieces == OperationIDPieces(op.Path) IN \E i \in 1..Len(pieces) : pieces[i] = <<>>

\* NewOperationID(op), when it does not panic.
NewOperationID(op) ==
    LET pieces == OperationIDPieces(op.Path)
    IN ToLower(op.Method)
           \o Flatten([i \in 1..Len(pieces) |->
                          ToUpper(SubSeq(pieces[i], 1, 1)) \o SubSeq(pieces[i], 2, Len(pieces[i]))])

\* responses() with the success code 200 for every method.
responses_NoCreated(op) ==
    LET code == IF op.ReturnOk.type = NoType THEN 204 ELSE 200
        desc == IF op.ReturnOk.type = NoType THEN "The operation completed successfully."
                ELSE "ok response"
        oks == CASE op.ReturnOk.is = "Responses" -> op.ReturnOk.resps
                 [] op.ReturnOk.is = "Response" -> <<op.ReturnOk.resp>>
                 [] OTHER -> <<NewResponse(code, desc, op.ReturnOk.type)>>
        errs == CASE op.ReturnErr.is = "Responses" -> op.ReturnErr.resps
                  [] op.ReturnErr.is = "Response" -> <<op.ReturnErr.resp>>
                  [] OTHER -> <<NewResponse(-1, "error response", op.ReturnErr.type)>>
    IN oks \o errs

\* Operation.responses().
responses(op) ==
    LET method == NewMethod(op.Method)
        code == IF op.ReturnOk.type = NoType THEN 204
                ELSE IF method = <<112,111,115,116>> THEN 201
                ELSE 200
        desc == IF op.ReturnOk.type = NoType THEN "The operation completed successfully."
                ELSE "ok response"
        oks == CASE op.ReturnOk.is = "Responses" -> op.ReturnOk.resps
                 [] op.ReturnOk.is = "Response" -> <<op.ReturnOk.resp>>
                 [] OTHER -> <<NewResponse(code, desc, op.ReturnOk.type)>>
        errs == CASE op.ReturnErr.is = "Responses" -> op.ReturnErr.resps
                  [] op.ReturnErr.is = "Response" -> <<op.ReturnErr.resp>>
                  [] OTHER -> <<NewResponse(-1, "error response", op.ReturnErr.type)>>
    IN oks \o errs

\* NewOperation(method, path, summary, params, returnOK, returnErr).
NewOperation(method, path, summary, params, returnOK, returnErr) ==
    [Method |-> method, Path |-> path, Summary |-> summary, Description |-> "",
     Params |-> params, ReturnOk |-> returnOK, ReturnErr |-> returnErr, Tags |-> <<>>]

\* Operation.toInternalOperation().
toInternalOperation(op) ==
    [Original |-> op,
     Method |-> NewMethod(op.Method),
     Path |-> NewPath(op.Path),
     OperationID |-> NewOperationID(op),
     Summary |-> op.Summary,
     Description |-> op.Description,
     Params |-> NewField(op.Params),
     Responses |-> responses(op),
     Tags |-> op.Tags]

\* useRequestBody() that does not look at the method.
useRequestBody_AnyMethod(o) == ~o.Params.Nil

\* internalOperation.useRequestBody().
useRequestBody(o) ==
    (o.Method = <<112,111,115,116>> \/ o.Method = <<112,117,116>>) /\ ~o.Params.Nil

\* Sashay.Add(op): the registry after the call.
AddOn(s, op) == [s EXCEPT !.operations = Append(@, toInternalOperation(op))]

(***************************************************************************)
(* The builders.  Each write* operator is the sequence of lines the        *)
(* function writes; a panic is the line PanicLine, where the output stops. *)
(***************************************************************************)
\* baseBuilder.writeLn(indent, format, args...).
Ln(indent, format, args) == <<indent, format, args>>

IsPanicLine(l) == l[1] = -1

\* panic(fmt.Sprintf("No dataTypeDef defined for kind %s, type %s. ...")).
NoDataTypeDefPanic(f) ==
    <<-1, "No dataTypeDef defined for kind %s, type %s.", <<f.Kind, f.Type>>>>

\* A panic inside enumerateStructFields(f).
WalkPanic(f) == <<-1, "enumerateStructFields panics", <<f.Kind, f.Type>>>>

\* baseBuilder.writeNotEmpty.
writeNotEmpty(indent, format, str) == IF str # "" THEN <<Ln(indent, format, <<str>>)>> ELSE <<>>

\* The loop of writeDataType over the sorted {key, value} tuples.
writeObjectFields(indent, kvs) == [i \in 1..Len(kvs) |-> Ln(indent, "%s: %s", kvs[i])]

\* writeDataType that writes nothing for a descriptor without a rule.
writeDataType_SkipUnruled(s, indent, f) ==
    LET d == dataTypeDefFor(s, f)
    IN IF ~d.found THEN <<>>
       ELSE writeObjectFields(indent, Sorted(CallDataTyper(d.def.DataTyper, f, NoObjectFields)))

\* baseBuilder.writeDataType.
writeDataType(s, indent, f) ==
    LET d == dataTypeDefFor(s, f)
    IN IF ~d.found THEN <<NoDataTypeDefPanic(f)>>
       ELSE writeObjectFields(indent, Sorted(CallDataTyper(d.def.DataTyper, f, NoObjectFields)))

\* schemaRefLink(f): fmt.Sprintf("#/components/schemas/%s", f.Type.Name()), as
\* the pair of the prefix and the name.
schemaRefLink(f) == <<"#/components/schemas/", f.Type.name>>

\* baseBuilder.writeRefSchema.
RECURSIVE writeRefSchema(_, _, _)
writeRefSchema(s, indent, f) ==
    IF f.Kind = "slice"
    THEN <<Ln(indent, "type: array", <<>>), Ln(indent, "items:", <<>>)>>
             \o writeRefSchema(s, indent + 1, ZeroSliceValueField(f.Type))
    ELSE IF f.Kind = "struct"
    THEN IF Len(f.Type.fields) = 0 THEN <<Ln(indent, "type: object", <<>>)>>
         ELSE IF isMappedToDataType(s, f) THEN writeDataType(s, indent, f)
         ELSE <<Ln(indent, "$ref: '%s'", <<schemaRefLink(f)>>)>>
    ELSE writeDataType(s, indent, f)

\* jsonName(f): the JSON name in the struct field's json tag.
jsonName(f) ==
    LET jsonTag == f.Tag.json
        parts == Split(jsonTag, 44)
    IN IF jsonTag # <<45>>
       THEN IF Len(parts) > 1 /\ parts[1] = <<>> THEN f.Name ELSE parts[1]
       ELSE <<>>

\* shouldRecurseStructField that does not look at the case of the name.
shouldRecurseStructField_UnnamedOnly(f) ==
    IF f.Type.name = <<>> THEN TRUE
    ELSE f.StructField.Anonymous

\* componentsBuilder.shouldRecurseStructField.
shouldRecurseStructField(f) ==
    IF f.Type.name = <<>> THEN TRUE
    ELSE IF f.StructField.Anonymous THEN TRUE
    ELSE ~isExportedName(f.Type.name)

\* The recurse argument of writeStructSchema: "body" is the closure
\* writePaths passes for a request body, "component" is
\* componentsBuilder.shouldRecurseStructField.
Recurse(s, policy, f) ==
    IF policy = "body" THEN ~isMappedToDataType(s, f) ELSE shouldRecurseStructField(f)

\* baseBuilder.writeStructSchema.
RECURSIVE writeStructSchema(_, _, _, _)
\* The body of the loop of writeStructSchema for a field with a JSON name.
writeStructField(s, indent, field, policy) ==
    LET sliceField == ZeroSliceValueField(field.Type)
    IN <<Ln(indent + 1, "%s:", <<jsonName(field.StructField)>>)>>
           \o (IF field.Kind = "struct"
               THEN IF Recurse(s, policy, field)
                    THEN writeStructSchema(s, indent + 2, field, policy)
                    ELSE writeRefSchema(s, indent + 2, field)
               ELSE IF field.Kind = "slice"
               THEN <<Ln(indent + 2, "type: array", <<>>), Ln(indent + 2, "items:", <<>>)>>
                        \o (IF sliceField.Kind = "struct"
                            THEN IF Recurse(s, policy, sliceField)
                                 THEN writeStructSchema(s, indent + 3, sliceField, policy)
                                 ELSE writeRefSchema(s, indent + 3, sliceField)
                            ELSE writeDataType(s, indent + 3, sliceField))
               ELSE writeDataType(s, indent + 2, field))

\* writeStructSchema for a struct f whose enumerateStructFields is fields.
writeStructFields(s, indent, f, policy, fields) ==
    LET named == SelectSeq(fields, LAMBDA field : jsonName(field.StructField) # <<>>)
    IN <<Ln(indent, "type: object", <<>>)>>
           \o (IF HasPanic(fields) THEN <<WalkPanic(f)>>
               ELSE (IF named # <<>> THEN <<Ln(indent, "properties:", <<>>)>> ELSE <<>>)
                        \o Flatten([i \in 1..Len(named) |->
                                        writeStructField(s, indent, named[i], policy)]))

writeStructSchema(s, indent, f, policy) ==
    writeStructFields(s, indent, f, policy, enumerateStructFields(f))

\* docBuilder.writeInfo.
writeInfo(s) ==
    <<Ln(0, "openapi: 3.0.0", <<>>), Ln(0, "info:", <<>>),
      Ln(1, "title: %s", <<s.title>>), Ln(1, "description: %s", <<s.desc>>)>>
        \o writeNotEmpty(1, "termsOfService: %s", s.tos)
        \o (IF s.contactName # "" \/ s.contactURL # "" \/ s.contactEmail # ""
            THEN <<Ln(1, "contact:", <<>>)>>
                     \o writeNotEmpty(2, "name: %s", s.contactName)
                     \o writeNotEmpty(2, "url: %s", s.contactURL)
                     \o writeNotEmpty(2, "email: %s", s.contactEmail)
            ELSE <<>>)
        \o (IF s.licenseName # "" \/ s.licenseURL # ""
            THEN <<Ln(1, "license:", <<>>)>>
                     \o writeNotEmpty(2, "name: %s", s.licenseName)
                     \o writeNotEmpty(2, "url: %s", s.licenseURL)
            ELSE <<>>)
        \o <<Ln(1, "version: %s", <<s.version>>)>>

\* docBuilder.writeTags.
writeTags(s) ==
    IF Len(s.tags) = 0 THEN <<>>
    ELSE <<Ln(0, "tags:", <<>>)>>
             \o Flatten([i \in 1..Len(s.tags) |->
                    <<Ln(1, "- name: %s", <<s.tags[i].name>>),
                      Ln(1, "  description: %s", <<s.tags[i].desc>>)>>])

\* docBuilder.writeServers.
writeServers(s) ==
    IF Len(s.servers) = 0 THEN <<>>
    ELSE <<Ln(0, "servers:", <<>>)>>
             \o Flatten([i \in 1..Len(s.servers) |->
                    <<Ln(1, "- url: %s", <<s.servers[i].url>>),
                      Ln(1, "  description: %s", <<s.servers[i].desc>>)>>])

\* methodWeights[m]: a Go map yields 0 for a key it does not hold.
methodWeights(m) ==
    CASE m = <<103,101,116>> -> 1                  \* "get"
      [] m = <<112,111,115,116>> -> 2              \* "post"
      [] m = <<112,117,116>> -> 3                  \* "put"
      [] m = <<112,97,116,99,104>> -> 4            \* "patch"
      [] m = <<100,101,108,101,116,101>> -> 5      \* "delete"
      [] OTHER -> 0

\* OperationLess without the method weights: the order of the paths only.
OperationLess_PathOnly(oi, oj) == StrLess(oi.Path, oj.Path)

\* The less function pathBuilder.sortedOperations sorts by.
OperationLess(oi, oj) ==
    IF oi.Path = oj.Path THEN methodWeights(oi.Method) < methodWeights(oj.Method)
    ELSE StrLess(oi.Path, oj.Path)

\* pathBuilder.sortedOperations: a sorted copy of the registry's operations.
sortedOperations(s) == InsertionSort(s.operations, OperationLess)

\* writeParams' entry with the query tag looked at before the path tag.
writeParam_QueryFirst(s, indent, field) ==
    LET tag == field.StructField.Tag
        in == IF tag.query # "" THEN "query"
              ELSE IF tag.path # "" THEN "path" ELSE "header"
        name == IF tag.query # "" THEN tag.query
                ELSE IF tag.path # "" THEN tag.path ELSE tag.header
    IN <<Ln(indent + 1, "- name: %s", <<name>>), Ln(indent + 1, "  in: %s", <<in>>)>>
           \o (IF in = "path" THEN <<Ln(indent + 1, "  required: true", <<>>)>> ELSE <<>>)
           \o writeNotEmpty(indent + 1, "  description: %s", tag.description)
           \o <<Ln(indent + 1, "  schema:", <<>>)>>
           \o writeRefSchema(s, indent + 3, field)

\* pathBuilder.writeParams.
\* The body of the loop of writeParams for a field with a path, query or
\* header tag.
writeParam(s, indent, field) ==
    LET tag == field.StructField.Tag
        in == IF tag.path # "" THEN "path"
              ELSE IF tag.query # "" THEN "query" ELSE "header"
        name == IF tag.path # "" THEN tag.path
                ELSE IF tag.query # "" THEN tag.query ELSE tag.header
    IN <<Ln(indent + 1, "- name: %s", <<name>>), Ln(indent + 1, "  in: %s", <<in>>)>>
           \o (IF in = "path" THEN <<Ln(indent + 1, "  required: true", <<>>)>> ELSE <<>>)
           \o writeNotEmpty(indent + 1, "  description: %s", tag.description)
           \o <<Ln(indent + 1, "  schema:", <<>>)>>
           \o writeRefSchema(s, indent + 3, field)

\* writeParams for a struct f whose enumerateStructFields is fields.
writeParamFields(s, indent, f, fields) ==
    LET tagged == SelectSeq(fields, LAMBDA field :
                      \/ field.StructField.Tag.path # ""
                      \/ field.StructField.Tag.query # ""
                      \/ field.StructField.Tag.header # "")
    IN IF HasPanic(fields) THEN <<WalkPanic(f)>>
       ELSE (IF tagged # <<>> THEN <<Ln(indent, "parameters:", <<>>)>> ELSE <<>>)
                \o Flatten([i \in 1..Len(tagged) |-> writeParam(s, indent, tagged[i])])

writeParams(s, indent, f) == writeParamFields(s, indent, f, enumerateStructFields(f))

\* The lines writePaths writes for one response.
writeResponse(s, contentType, resp) ==
    <<Ln(4, "'%s':", <<resp.Code>>), Ln(5, "description: %s", <<resp.Description>>)>>
        \o (IF ~resp.Field.Nil
            THEN <<Ln(5, "content:", <<>>),
                   IF resp.Field.Kind = "string" THEN Ln(6, "text/plain:", <<>>)
                   ELSE Ln(6, "%s:", <<contentType>>),
                   Ln(7, "schema:", <<>>)>>
                     \o writeRefSchema(s, 8, resp.Field)
            ELSE <<>>)

\* The body of the loop of writePaths for op, after an operation of path
\* lastPath and method lastMethod.
writeOperation(s, op, lastPath, lastMethod) ==
    LET contentType == s.DefaultContentType
    IN (IF lastPath # op.Path
        THEN <<Ln(1, "%s:", <<op.Path>>), Ln(2, "%s:", <<op.Method>>)>>
        ELSE IF lastMethod # op.Method THEN <<Ln(2, "%s:", <<op.Method>>)>>
        ELSE <<>>)
           \o (IF Len(op.Tags) > 0 THEN <<Ln(3, "tags: [\"%s\"]", <<op.Tags>>)>> ELSE <<>>)
           \o <<Ln(3, "operationId: %s", <<op.OperationID>>)>>
           \o writeNotEmpty(3, "summary: %s", op.Summary)
           \o writeNotEmpty(3, "description: %s", op.Description)
           \o (IF ~op.Params.Nil THEN writeParams(s, 3, op.Params) ELSE <<>>)
           \o (IF useRequestBody(op)
               THEN <<Ln(3, "requestBody:", <<>>), Ln(4, "required: true", <<>>),
                      Ln(4, "content:", <<>>), Ln(5, "%s:", <<contentType>>),
                      Ln(6, "schema:", <<>>)>>
                        \o writeStructSchema(s, 7, op.Params, "body")
               ELSE <<>>)
           \o <<Ln(3, "responses:", <<>>)>>
           \o Flatten([i \in 1..Len(op.Responses) |->
                          writeResponse(s, contentType, op.Responses[i])])

\* pathBuilder.writePaths.
writePaths(s) ==
    Strict(LAMBDA ops :
               <<Ln(0, "paths:", <<>>)>>
                   \o Flatten([i \in 1..Len(ops) |->
                          writeOperation(s, ops[i],
                                         IF i = 1 THEN <<>> ELSE ops[i - 1].Path,
                                         IF i = 1 THEN <<>> ELSE ops[i - 1].Method)]),
           sortedOperations(s))

\* componentsBuilder.visitStructs: the Fields handed to visitor, in order,
\* ending in PanicField if the walk panics.
RECURSIVE visitStructs(_, _)
\* visitStructs from the call of visitor on: f is a struct and
\* enumerateStructFields(f) is fields.
visitStructFields(s, f, fields) ==
    IF HasPanic(fields) THEN <<f, PanicField>>
    ELSE <<f>> \o Flatten([i \in 1..Len(fields) |-> visitStructs(s, fields[i])])

visitStructs(s, f0) ==
    LET f1 == IF f0.Kind = "slice" THEN ZeroSliceValueField(f0.Type) ELSE f0
        d == dataTypeDefFor(s, f1)
        f == IF d.found THEN d.def.Field ELSE f1
    IN IF f.Kind # "struct" THEN <<>>
       ELSE visitStructFields(s, f, enumerateStructFields(f))

\* Fields.Compact.
Compact(fs) == SelectSeq(fs, LAMBDA p : ~p.Nil)

\* Fields.FlattenSliceTypes.
FlattenSliceTypes(fs) ==
    Strict(LAMBDA v : [i \in 1..Len(v) |->
                          IF v[i].Type.kind = "slice" THEN ZeroSliceValueField(v[i].Type)
                          ELSE v[i]],
           fs)

\* Distinct that eliminates nothing.
Distinct_KeepAll(fs) == fs

\* Fields.Distinct: the first Field of each Type.
Distinct(fs) ==
    Strict(LAMBDA v : SelectIdx(v, LAMBDA i : \A j \in 1..(i - 1) : v[j].Type # v[i].Type), fs)

\* Fields.RemoveAnonymousTypes.
RemoveAnonymousTypes(fs) == SelectSeq(fs, LAMBDA f : f.Type.pkg # "")

\* Fields.Less.
FieldsLess(fi, fj) == StrLess(fi.Type.name, fj.Type.name)

\* A walk that starts from the parameters of each operation as well.
allVisitedFields_WithParams(s) ==
    Flatten([i \in 1..Len(s.operations) |->
        visitStructs(s, s.operations[i].Params)
        \o Flatten([r \in 1..Len(s.operations[i].Responses) |->
               visitStructs(s, s.operations[i].Responses[r].Field)])])

\* The Fields the visitor of sortedFieldsForSchema collects.
allVisitedFields(s) ==
    Flatten([i \in 1..Len(s.operations) |->
        Flatten([r \in 1..Len(s.operations[i].Responses) |->
            visitStructs(s, s.operations[i].Responses[r].Field)])])

\* componentsBuilder.sortedFieldsForSchema, when the walk does not panic.
sortedFieldsForSchema(s) ==
    InsertionSort(RemoveAnonymousTypes(Distinct(FlattenSliceTypes(Compact(allVisitedFields(s))))),
                  FieldsLess)

\* componentsBuilder.writeSchemas.
writeSchemas(s, sortedSchemas) ==
    <<Ln(1, "schemas:", <<>>)>>
        \o Flatten([i \in 1..Len(sortedSchemas) |->
               <<Ln(2, "%s:", <<sortedSchemas[i].Type.name>>)>>
                   \o writeStructSchema(s, 3, sortedSchemas[i], "component")])

K_id == <<105,100>>    \* "id"

\* swaggerSecurity.Fields: the map without its "id".
SecurityFields(sec) == [k \in (DOMAIN sec) \ {K_id} |-> sec[k]]

\* componentsBuilder.writeSecuritySchemas.
writeSecuritySchemas(s) ==
    <<Ln(1, "securitySchemes:", <<>>)>>
        \o Flatten([i \in 1..Len(s.securities) |->
               <<Ln(2, "%s:", <<s.securities[i][K_id]>>)>>
                   \o [k \in 1..Len(Sorted(SecurityFields(s.securities[i]))) |->
                          Ln(3, "%s: %s", Sorted(SecurityFields(s.securities[i]))[k])]])

\* componentsBuilder.writeSecurityScopes.
writeSecurityScopes(s) ==
    <<Ln(0, "security:", <<>>)>>
        \o [i \in 1..Len(s.securities) |-> Ln(1, "- %s: []", <<s.securities[i][K_id]>>)]

\* componentsBuilder.writeComponents.
writeComponents(s) ==
    IF HasPanic(allVisitedFields(s)) THEN <<WalkPanic(NilField)>>
    ELSE Strict(LAMBDA sortedSchemas :
                    (IF Len(sortedSchemas) > 0 \/ Len(s.securities) > 0
                     THEN <<Ln(0, "components:", <<>>)>> ELSE <<>>)
                        \o (IF Len(sortedSchemas) > 0 THEN writeSchemas(s, sortedSchemas)
                            ELSE <<>>)
                        \o (IF Len(s.securities) > 0
                            THEN writeSecuritySchemas(s) \o writeSecurityScopes(s) ELSE <<>>),
                sortedFieldsForSchema(s))

\* Everything Sashay.WriteYAML would write if no call panicked.
WriteYAMLLines(s) ==
    writeInfo(s) \o writeTags(s) \o writeServers(s) \o writePaths(s) \o writeComponents(s)

\* Whether a panic is among the lines ls.
HasPanicLine(ls) == \E i \in 1..Len(ls) : IsPanicLine(ls[i])

\* The lines of ls before the first panic.
LinesBeforePanic(ls) ==
    SubSeq(ls, 1, Cardinality({i \in 1..Len(ls) : \A j \in 1..i : ~IsPanicLine(ls[j])}))

\* Whether WriteYAML panics.
WriteYAMLPanics(s) == Strict(HasPanicLine, WriteYAMLLines(s))

\* What the writer has received when WriteYAML returns or panics: the lines
\* before the first panic.
WriteYAML(s) == Strict(LinesBeforePanic, WriteYAMLLines(s))

\* Sashay.BuildYAML, when WriteYAML does not panic.
BuildYAML(s) == WriteYAML(s)

(***************************************************************************)
(* The inputs: the Go types the operations of the model are built from,    *)
(* and the operations themselves.                                          *)
(***************************************************************************)
\* type User struct { ID int `json:"id"`; Name string `json:"name"` }
TUser ==
    StructType(<<85,115,101,114>>, "main",
        << SF(<<73,68>>, TInt, JSONTag(<<105,100>>)), SF(<<78,97,109,101>>, TString, JSONTag(<<110,97,109,101>>)) >>)

\* type ErrorModel struct { Error struct { Message string `json:"message"` } `json:"error"` }
TErrorModel ==
    StructType(<<69,114,114,111,114,77,111,100,101,108>>, "main",
        << SF(<<69,114,114,111,114>>,
              StructType(<<>>, "", << SF(<<77,101,115,115,97,103,101>>, TString, JSONTag(<<109,101,115,115,97,103,101>>)) >>),
              JSONTag(<<101,114,114,111,114>>)) >>)

\* type Custom struct { Field string `json:"field"` }
TCustom == StructType(<<67,117,115,116,111,109>>, "main", << SF(<<70,105,101,108,100>>, TString, JSONTag(<<102,105,101,108,100>>)) >>)

\* type Response struct { Custom Custom `json:"custom"`; Users []User `json:"users"` }
TResponse ==
    StructType(<<82,101,115,112,111,110,115,101>>, "main",
        << SF(<<67,117,115,116,111,109>>, TCustom, JSONTag(<<99,117,115,116,111,109>>)),
           SF(<<85,115,101,114,115>>, SliceOf(TUser), JSONTag(<<117,115,101,114,115>>)) >>)

\* type Base struct { ID int `json:"id"` }
TBase == StructType(<<66,97,115,101>>, "main", << SF(<<73,68>>, TInt, JSONTag(<<105,100>>)) >>)

\* type Pet struct { Base; Tag string `json:"tag"`; Owner User `json:"owner"` }
TPet ==
    StructType(<<80,101,116>>, "main",
        << Embedded(TBase), SF(<<84,97,103>>, TString, JSONTag(<<116,97,103>>)),
           SF(<<79,119,110,101,114>>, TUser, JSONTag(<<111,119,110,101,114>>)) >>)

\* type Event struct { At time.Time `json:"at"` }
TEvent == StructType(<<69,118,101,110,116>>, "main", << SF(<<65,116>>, TTime, JSONTag(<<97,116>>)) >>)

\* type Flags struct { A bool `json:"a"`; B *bool `json:"b"`; C **bool `json:"c"` }
TFlags ==
    StructType(<<70,108,97,103,115>>, "main",
        << SF(<<65>>, TBool, JSONTag(<<97>>)),
           SF(<<66>>, PtrTo(TBool), JSONTag(<<98>>)),
           SF(<<67>>, PtrTo(PtrTo(TBool)), JSONTag(<<99>>)) >>)

\* struct { User User `json:"user"` }, a struct type literal.
TAnon == StructType(<<>>, "", << SF(<<85,115,101,114>>, TUser, JSONTag(<<117,115,101,114>>)) >>)

\* type Filter struct { X int `json:"x"` }
TFilter == StructType(<<70,105,108,116,101,114>>, "main", << SF(<<88>>, TInt, JSONTag(<<120>>)) >>)

\* type Address struct { State string `json:"state"` }
TAddress == StructType(<<65,100,100,114,101,115,115>>, "main", << SF(<<83,116,97,116,101>>, TString, JSONTag(<<115,116,97,116,101>>)) >>)

\* struct {
\*     ID      int     `path:"id"`
\*     Pretty  bool    `query:"pretty" description:"indent"`
\*     Name    string  `json:"name"`
\*     Address Address `json:"address"`
\*     Friends []User  `json:"friends"`
\*     Custom  Custom  `json:"custom"`
\* }
TParams ==
    StructType(<<>>, "",
        << SF(<<73,68>>, TInt, [NoTag EXCEPT !.path = "id"]),
           SF(<<80,114,101,116,116,121>>, TBool, [NoTag EXCEPT !.query = "pretty", !.description = "indent"]),
           SF(<<78,97,109,101>>, TString, JSONTag(<<110,97,109,101>>)),
           SF(<<65,100,100,114,101,115,115>>, TAddress, JSONTag(<<97,100,100,114,101,115,115>>)),
           SF(<<70,114,105,101,110,100,115>>, SliceOf(TUser), JSONTag(<<102,114,105,101,110,100,115>>)),
           SF(<<67,117,115,116,111,109>>, TCustom, JSONTag(<<99,117,115,116,111,109>>)) >>)

\* struct { F Filter `query:"f"`; Tags []Filter `header:"X-Tags"` }
TFilterParams ==
    StructType(<<>>, "",
        << SF(<<70>>, TFilter, [NoTag EXCEPT !.query = "f"]),
           SF(<<84,97,103,115>>, SliceOf(TFilter), [NoTag EXCEPT !.header = "X-Tags"]) >>)

\* struct {}
TEmptyParams == StructType(<<>>, "", <<>>)

M_GET == <<71,69,84>>
M_POST == <<80,79,83,84>>
M_Post == <<80,111,115,116>>
M_PUT == <<80,85,84>>
M_PATCH == <<80,65,84,67,72>>
M_DELETE == <<68,69,76,69,84,69>>
M_HEAD == <<72,69,65,68>>
M_OPTIONS == <<79,80,84,73,79,78,83>>

P_a == <<47,97>>
P_ab == <<47,97,47,98>>
P_ax == <<47,97,47,58,120>>
P_u == <<47,117>>

Nothing == AsValue(NoType)

\* Operations that differ in method, path and summary only.
RouteOps ==
    { NewOperation(m, p, "", NoType, Nothing, Nothing) :
          m \in {M_GET, M_POST, M_PUT, M_PATCH, M_DELETE, M_HEAD, M_OPTIONS},
          p \in {P_ab, P_ax} }
    \cup { NewOperation(M_GET, P_ab, "again", NoType, Nothing, Nothing) }

\* Operations that differ in what they return.
ShapeOps ==
    { NewOperation(M_Post, P_u, "", NoType, Nothing, Nothing),
      NewOperation(M_Post, P_u, "", NoType, AsValue(TUser), AsValue(TErrorModel)),
      NewOperation(M_DELETE, P_u, "", NoType, AsValue(PtrTo(TUser)), Nothing),
      NewOperation(M_GET, P_u, "", NoType, AsValue(SliceOf(TUser)), AsValue(TErrorModel)),
      NewOperation(M_GET, P_a, "", NoType, AsValue(TResponse), Nothing),
      NewOperation(M_GET, P_a, "", NoType, AsValue(TCustom), Nothing),
      NewOperation(M_GET, P_a, "", NoType, AsValue(SliceOf(TCustom)), Nothing),
      NewOperation(M_GET, P_a, "", NoType, AsValue(TAnon), Nothing),
      NewOperation(M_GET, P_a, "", NoType, AsValue(SliceOf(SliceOf(TUser))), Nothing),
      NewOperation(M_GET, P_a, "", NoType, AsValue(TPet), Nothing),
      NewOperation(M_GET, P_a, "", NoType, AsValue(TEvent), Nothing),
      NewOperation(M_GET, P_a, "", NoType, AsValue(TFlags), Nothing),
      NewOperation(M_POST, P_ab, "", NoType,
                   AsResponses(<< NewResponse(200, "ok", TUser),
                                  NewResponse(206, "partial", SliceOf(TUser)) >>),
                   AsResponse(NewResponse(404, "not found", TErrorModel))) }

\* Operations that differ in method and parameters.
ParamOps ==
    { NewOperation(m, P_ax, "", p, Nothing, Nothing) :
          m \in {M_GET, M_POST, M_PUT, M_PATCH, M_DELETE},
          p \in {NoType, TParams, TFilterParams, TEmptyParams} }
    \cup { NewOperation(M_Post, P_u, "", PtrTo(TUser), AsValue(TUser), Nothing) }

(***************************************************************************)
(* The state machine: a registry made by New, the calls a program makes on *)
(* it, and the text the last BuildYAML returned (<<>> before the first).   *)
(* dest is the registry the last SelectMap returned, as <<registry>>, and  *)
(* <<>> before the first.  buf is the io.Writer of the last WriteYAML(w):  *)
(* the lines it received and the value WriteYAML panicked with, if any.    *)
(* route is a route string a program translates with NewPath: the string,  *)
(* what the calls made of it so far, and how many calls there were.        *)
(* walk is a run of visitStructs taken call by call: the frames of the     *)
(* calls that have not returned, the structs the visitor got, and whether  *)
(* the run is going on, has returned, or has exhausted the stack.  added   *)
(* is the last call of Add a program made with any Operation at all: the   *)
(* Operation and whether the call panicked.                                *)
(***************************************************************************)
\* The writer before any WriteYAML.
NoWrite == [out |-> <<>>, panic |-> <<>>]

\* The route s before any NewPath.
NewRoute(s) == [in |-> s, out |-> s, calls |-> 0]

NoPath == NewRoute(<<>>)

\* No run of visitStructs yet.
NoWalk == [stack |-> <<>>, visited |-> <<>>, status |-> "idle"]

\* No call of Add observed yet.
NoAdd == [op |-> <<>>, panicked |-> FALSE]

Init ==
    /\ sa = New("title", "desc", "0.0.1")
    /\ yaml = <<>>
    /\ dest = <<>>
    /\ buf = NoWrite
    /\ route = NoPath
    /\ walk = NoWalk
    /\ added = NoAdd

\* sa.Add(op).  NewOperationID panics on a path with an empty piece, and then
\* nothing is added.
Add(op) ==
    /\ Len(sa.operations) < MaxOps
    /\ ~NewOperationIDPanics(op)
    /\ sa' = AddOn(sa, op)
    /\ UNCHANGED <<yaml, dest, buf, route, walk, added>>

\* sa.DefineDataType(i, dt) for a value i of type t.
DefineDataType(t, dt) ==
    /\ sa' = DefineDataTypeOn(sa, t, dt)
    /\ UNCHANGED <<yaml, dest, buf, route, walk, added>>

\* BuildYAML whose sortedOperations sorts the registry's own slice.
Build_SortsInPlace ==
    /\ ~WriteYAMLPanics(sa)
    /\ yaml' = BuildYAML(sa)
    /\ sa' = [sa EXCEPT !.operations = sortedOperations(sa)]
    /\ UNCHANGED <<dest, buf, route, walk, added>>

\* yaml = sa.BuildYAML(), when WriteYAML does not panic.
Build ==
    /\ ~WriteYAMLPanics(sa)
    /\ yaml' = BuildYAML(sa)
    /\ UNCHANGED <<sa, dest, buf, route, walk, added>>

AddRoute == \E op \in RouteOps : Add(op)

AddShape == \E op \in ShapeOps : Add(op)

AddParams == \E op \in ParamOps : Add(op)

\* sw.DefineDataType(Custom{}, sashay.SimpleDataTyper("boolean", ""))
DefineCustom == DefineDataType(TCustom, SimpleDataTyper("boolean", ""))

NextRoutes == AddRoute \/ Build

NextShapes == AddShape \/ DefineCustom \/ Build

NextParams == AddParams \/ DefineCustom \/ Build

\* Programs that add operations differing in method and path.
SpecRoutes == Init /\ [][NextRoutes]_vars

\* Programs that add operations differing in their responses.
SpecShapes == Init /\ [][NextShapes]_vars

\* Programs that add operations differing in their parameters.
SpecParams == Init /\ [][NextParams]_vars

\* The text is the one BuildYAML returns for the registry as it is now.
Fresh == yaml = BuildYAML(sa)

(***************************************************************************)
(* Reading the generated text.                                             *)
(***************************************************************************)
\* The indices of y that satisfy Keep, ascending.
Indices(y, Keep(_)) == SelectIdx([i \in 1..Len(y) |-> i], Keep)

\* The lines of the block that the line of this indent and format opens: the
\* lines after it, up to the next line that is not indented deeper.
Block(y, indent, format) ==
    LET opens == {i \in 1..Len(y) : y[i][1] = indent /\ y[i][2] = format}
        start == CHOOSE i \in opens : \A j \in opens : i <= j
        closes == {i \in (start + 1)..Len(y) : y[i][1] <= indent}
        stop == IF closes = {} THEN Len(y) + 1
                ELSE CHOOSE i \in closes : \A j \in closes : i <= j
    IN IF opens = {} THEN {} ELSE (start + 1)..(stop - 1)

PathsBlock(y) == Block(y, 0, "paths:")

SchemasBlock(y) == Block(y, 1, "schemas:")

\* The last line before line k, inside block blk, that has this indent.
LastBefore(y, blk, k, indent) ==
    LET before == {j \in blk : j < k /\ y[j][1] = indent}
    IN CHOOSE j \in before : \A j2 \in before : j2 <= j

\* The operations of the paths block, in the order of the text: the path and
\* method each stands under, the line of its operationId, and its last line.
EmittedOperations(y) ==
    LET blk == PathsBlock(y)
        ks == Indices(y, LAMBDA i : i \in blk /\ y[i][2] = "operationId: %s")
    IN [n \in 1..Len(ks) |->
           [path |-> y[LastBefore(y, blk, ks[n], 1)][3][1],
            method |-> y[LastBefore(y, blk, ks[n], 2)][3][1],
            from |-> ks[n],
            to |-> IF n < Len(ks) THEN ks[n + 1] - 1
                   ELSE CHOOSE i \in blk : \A j \in blk : j <= i]]

\* The names of the entries of components/schemas, in the order of the text.
ComponentNames(y) ==
    LET blk == SchemasBlock(y)
        ks == Indices(y, LAMBDA i : i \in blk /\ y[i][1] = 2)
    IN [n \in 1..Len(ks) |-> y[ks[n]][3][1]]

\* The lines that are a $ref.
RefLines(y) == {i \in 1..Len(y) : y[i][2] = "$ref: '%s'"}

\* The type name a $ref line links to.
RefName(l) == l[3][1][2]

\* How many elements of sequence s satisfy P.
Count(s, P(_)) == Cardinality({i \in 1..Len(s) : P(s[i])})

(***************************************************************************)
(* The order of the paths block.                                           *)
(***************************************************************************)
\* C1: order independence: whatever the order in which the operations of
\* the registry were passed to Add, BuildYAML returns the same text.
C1_OrderIndependence ==
    Fresh =>
        \A p \in Permutations(1..Len(sa.operations)) :
            BuildYAML([sa EXCEPT !.operations =
                          [i \in 1..Len(sa.operations) |-> sa.operations[p[i]]]]) = yaml

\* The weight of a method in the order get < post < put < patch < delete.
C2_Weight(m) ==
    CASE m = <<103,101,116>> -> 1
      [] m = <<112,111,115,116>> -> 2
      [] m = <<112,117,116>> -> 3
      [] m = <<112,97,116,99,104>> -> 4
      [] m = <<100,101,108,101,116,101>> -> 5
      [] OTHER -> 0

\* C2: the paths block holds every operation of the registry, and of two
\* operations a before b of it, either path(a) < path(b), or the paths are
\* equal and weight(method(a)) <= weight(method(b)).
C2_PathsOrdered ==
    Fresh =>
        LET es == EmittedOperations(yaml)
        IN /\ Len(es) = Len(sa.operations)
           /\ \A i \in 1..Len(sa.operations) :
                  \E n \in 1..Len(es) :
                      /\ es[n].path = NewPath(sa.operations[i].Original.Path)
                      /\ es[n].method = ToLower(sa.operations[i].Original.Method)
           /\ \A i, j \in 1..Len(es) :
                  i < j =>
                      \/ StrLess(es[i].path, es[j].path)
                      \/ /\ es[i].path = es[j].path
                         /\ C2_Weight(es[i].method) <= C2_Weight(es[j].method)

\* A text built for two operations of one path that were added in the
\* order post, get, and for two whose paths sort differently once translated.
C2_Witness ==
    /\ Fresh
    /\ Len(sa.operations) = 2
    /\ \/ /\ sa.operations[1].Path = sa.operations[2].Path
          /\ sa.operations[1].Method = <<112,111,115,116>>
          /\ sa.operations[2].Method = <<103,101,116>>
       \/ /\ sa.operations[1].Original.Path = P_ab
          /\ sa.operations[2].Original.Path = P_ax

(***************************************************************************)
(* The components.                                                         *)
(***************************************************************************)
\* The type a response or a field of type t is walked as: the pointer's
\* element, and of a slice its element.
Walked(t) ==
    LET d == IF t.kind = "ptr" THEN t.elem ELSE t
    IN IF d.kind = "slice"
       THEN (IF d.elem.kind = "ptr" THEN d.elem.elem ELSE d.elem)
       ELSE d

\* The types of the visible fields of struct type t: the fields whose name
\* starts with an upper case letter, and in place of an embedded field the
\* visible fields of its type.
RECURSIVE VisibleFieldTypes(_)
VisibleFieldTypes(t) ==
    UNION { IF t.fields[i].Anonymous THEN VisibleFieldTypes(t.fields[i].Type)
            ELSE IF t.fields[i].Name[1] \in 65..90 THEN {t.fields[i].Type}
            ELSE {} : i \in 1..Len(t.fields) }

\* The struct types reachable from the types of seen through visible fields.
RECURSIVE ReachableFrom(_)
ReachableFrom(seen) ==
    LET next == { Walked(ft) : ft \in UNION {VisibleFieldTypes(t) : t \in seen} }
        more == { t \in next : t.kind = "struct" } \ seen
    IN IF more = {} THEN seen ELSE ReachableFrom(seen \cup more)

\* The named struct types reachable from a response of the registry:
\* directly, as a slice element, or through visible fields.
ReachableNamedStructs(s) ==
    LET direct == UNION { { Walked(s.operations[i].Responses[r].Field.Value) :
                                r \in 1..Len(s.operations[i].Responses) } :
                            i \in 1..Len(s.operations) }
        all == ReachableFrom({ t \in direct : t.kind = "struct" })
    IN { t \in all : t.name # <<>> }

\* C3: components/schemas lists each named struct type reachable from a
\* response exactly once, in ascending order of type name.
C3_ComponentsDistinctSorted ==
    Fresh =>
        LET names == ComponentNames(yaml)
            types == ReachableNamedStructs(sa)
        IN /\ Len(names) = Cardinality(types)
           /\ \A t \in types :
                  Count(names, LAMBDA n : n = t.name)
                      = Cardinality({u \in types : u.name = t.name})
           /\ \A i, j \in 1..Len(names) : i < j => ~StrLess(names[j], names[i])

\* A text built for two operations that both return User, one of them in a
\* slice, and an error type whose name sorts before User.
C3_Witness ==
    /\ Fresh
    /\ Len(sa.operations) = 2
    /\ sa.operations[1].Responses[1].Field.Type = TUser
    /\ sa.operations[1].Responses[2].Field.Nil
    /\ sa.operations[2].Responses[1].Field.Type = SliceOf(TUser)
    /\ sa.operations[2].Responses[2].Field.Type = TErrorModel
    /\ ComponentNames(yaml) = << <<69,114,114,111,114,77,111,100,101,108>>, <<85,115,101,114>> >>

\* The struct types that have a rule of their own in the registry.
MappedStructs(s) == { t \in DOMAIN s.dataTypesForTypes : t.kind = "struct" }

\* C4: a struct type with an exact-type rule is no entry of
\* components/schemas, and no $ref links to it.
C4_MappedStructNoComponent ==
    Fresh =>
        \A t \in MappedStructs(sa) :
            /\ \A n \in 1..Len(ComponentNames(yaml)) : ComponentNames(yaml)[n] # t.name
            /\ \A i \in RefLines(yaml) : RefName(yaml[i]) # t.name

(***************************************************************************)
(* Responses, request bodies and references.                               *)
(***************************************************************************)
\* The responses an operation with these arguments is documented to get
\* where ReturnOk or ReturnErr is neither a Response nor a Responses.
C5_DefaultOk(op) ==
    [Code |-> IF op.ReturnOk.type = NoType THEN <<50,48,52>>
              ELSE IF ToLower(op.Method) = <<112,111,115,116>> THEN <<50,48,49>>
              ELSE <<50,48,48>>,
     Field |-> NewField(op.ReturnOk.type)]

C5_DefaultErr(op) == [Code |-> <<100,101,102,97,117,108,116>>, Field |-> NewField(op.ReturnErr.type)]

\* The responses ReturnOk or ReturnErr holds when it is a Response or a
\* Responses.
C5_Explicit(v) == IF v.is = "Responses" THEN v.resps ELSE <<v.resp>>

\* C5: response defaulting: an operation whose ReturnOk is neither a Response
\* nor a Responses gets exactly one success response, of code 204 if ReturnOk
\* is nil, 201 if it is not and the method is POST in any case, else 200; one
\* whose ReturnErr is neither gets exactly one error response, of code
\* "default", with the error type or with no body if ReturnErr is nil; the
\* success responses come first.
C5_ResponseDefaulting ==
    \A i \in 1..Len(sa.operations) :
        LET o == sa.operations[i]
            op == o.Original
            nOk == IF op.ReturnOk.is = "value" THEN 1 ELSE Len(C5_Explicit(op.ReturnOk))
            nErr == IF op.ReturnErr.is = "value" THEN 1 ELSE Len(C5_Explicit(op.ReturnErr))
            ok == SubSeq(o.Responses, 1, nOk)
            err == SubSeq(o.Responses, nOk + 1, Len(o.Responses))
        IN /\ Len(o.Responses) = nOk + nErr
           /\ IF op.ReturnOk.is = "value"
              THEN /\ ok[1].Code = C5_DefaultOk(op).Code
                   /\ ok[1].Field = C5_DefaultOk(op).Field
                   /\ ok[1].Field.Nil <=> op.ReturnOk.type = NoType
              ELSE ok = C5_Explicit(op.ReturnOk)
           /\ IF op.ReturnErr.is = "value"
              THEN /\ err[1].Code = C5_DefaultErr(op).Code
                   /\ err[1].Field = C5_DefaultErr(op).Field
                   /\ err[1].Field.Nil <=> op.ReturnErr.type = NoType
              ELSE err = C5_Explicit(op.ReturnErr)

\* A registry that holds an operation of method "Post" that returns a User
\* and an ErrorModel, and one that returns nothing.
C5_Witness ==
    /\ Len(sa.operations) = 2
    /\ sa.operations[1].Original.Method = M_Post
    /\ sa.operations[1].Original.ReturnOk = AsValue(TUser)
    /\ sa.operations[1].Original.ReturnErr = AsValue(TErrorModel)
    /\ sa.operations[1].Responses[1].Code = <<50,48,49>>
    /\ sa.operations[2].Original.ReturnOk = Nothing
    /\ sa.operations[2].Responses[1].Code = <<50,48,52>>

\* Whether the text has a requestBody for the emitted operation e.
HasRequestBody(y, e) == \E i \in e.from..e.to : y[i] = <<3, "requestBody:", <<>>>>

\* Whether an operation with these arguments is documented to get a
\* requestBody: its method is POST or PUT and it has parameters.
C6_WantsRequestBody(op) ==
    /\ ToLower(op.Method) \in {<<112,111,115,116>>, <<112,117,116>>}
    /\ op.Params # NoType

SectionOf(y, i) == y[LastBefore(y, PathsBlock(y), i + 1, 3)][2]

\* C7: no $ref is emitted for parameters: every $ref of the paths block is
\* in the responses of its operation, none in parameters or requestBody.
C7_NoRefInParameters ==
    Fresh =>
        \A i \in RefLines(yaml) \cap PathsBlock(yaml) : SectionOf(yaml, i) = "responses:"

\* C8: reference closure: every $ref of the text names a type that has an
\* entry of the same, non-empty name in components/schemas.
C8_ReferenceClosure ==
    Fresh =>
        \A i \in RefLines(yaml) :
            /\ RefName(yaml[i]) # <<>>
            /\ \E n \in 1..Len(ComponentNames(yaml)) :
                   ComponentNames(yaml)[n] = RefName(yaml[i])

(***************************************************************************)
(* Pointers.                                                               *)
(***************************************************************************)
\* Type t with every struct field of a type X that is no pointer declared
\* as *X instead, in t and in every type t is made of; embedded fields too
\* if embedded is TRUE.  A type that has a rule of its own in registry s is
\* left as it is: the rule is registered for that very type.
RECURSIVE PointerFields(_, _, _)
PointerFields(s, t, embedded) ==
    IF t.kind = "struct"
    THEN IF t \in DOMAIN s.dataTypesForTypes THEN t
         ELSE [t EXCEPT !.fields =
                  [i \in 1..Len(t.fields) |->
                      LET fd == t.fields[i]
                          inner == PointerFields(s, fd.Type, embedded)
                      IN [fd EXCEPT !.Type =
                             IF inner.kind = "ptr" \/ (fd.Anonymous /\ ~embedded)
                             THEN inner ELSE PtrTo(inner)]]]
    ELSE IF t.kind \in {"slice", "ptr"}
    THEN [t EXCEPT !.elem = PointerFields(s, t.elem, embedded)]
    ELSE t

\* Registry s, had every operation been added with the PointerFields of its
\* parameter and response types.
PointerVariant(s, embedded) ==
    LET resp(r) == [r EXCEPT !.Field = NewField(PointerFields(s, r.Field.Value, embedded))]
        arg(v) == CASE v.is = "value" -> AsValue(PointerFields(s, v.type, embedded))
                    [] v.is = "Response" -> AsResponse(resp(v.resp))
                    [] v.is = "Responses" ->
                           AsResponses([i \in 1..Len(v.resps) |-> resp(v.resps[i])])
        with(op) == [op EXCEPT !.Params = PointerFields(s, op.Params, embedded),
                               !.ReturnOk = arg(op.ReturnOk),
                               !.ReturnErr = arg(op.ReturnErr)]
    IN [s EXCEPT !.operations =
           [i \in 1..Len(s.operations) |-> toInternalOperation(with(s.operations[i].Original))]]

\* C9: pointer transparency: with any field of type X of a parameter or
\* response struct declared as *X instead, BuildYAML returns the same text.
C9_PointerTransparency ==
    Fresh =>
        /\ ~WriteYAMLPanics(PointerVariant(sa, TRUE))
        /\ BuildYAML(PointerVariant(sa, TRUE)) = yaml

\* The fields of the structs the components are made of that are written
\* by a rule of the registry.
RuledFields(s) ==
    LET structs == allVisitedFields(s)
        fields == Flatten([i \in 1..Len(structs) |-> enumerateStructFields(structs[i])])
    IN { fields[i] : i \in { j \in 1..Len(fields) :
                                /\ dataTypeDefFor(s, fields[j]).found
                                /\ fields[j].Kind \notin {"struct", "slice"} } }

\* Whether these lines hold the attribute nullable.
HasNullable(lines) == \E i \in 1..Len(lines) : lines[i][3][1] = K_nullable

MaxRules == 2

\* type MyInt int
TMyInt == NamedType("int", <<77,121,73,110,116>>)

\* type OtherInt int
TOtherInt == NamedType("int", <<79,116,104,101,114,73,110,116>>)

\* type myString string
TMyString == NamedType("string", <<109,121,83,116,114,105,110,103>>)

\* map[string]int
TLabels == [kind |-> "map", name |-> <<>>, pkg |-> ""]

\* type Ruled struct { N MyInt `json:"n"`; O OtherInt `json:"o"`; S myString `json:"s"`; I int `json:"i"` }
TRuled ==
    StructType(<<82,117,108,101,100>>, "main",
        << SF(<<78>>, TMyInt, JSONTag(<<110>>)), SF(<<79>>, TOtherInt, JSONTag(<<111>>)),
           SF(<<83>>, TMyString, JSONTag(<<115>>)), SF(<<73>>, TInt, JSONTag(<<105>>)) >>)

\* struct { Custom ***Custom `json:"custom"` }
TDeep ==
    StructType(<<>>, "",
        << SF(<<67,117,115,116,111,109>>, PtrTo(PtrTo(PtrTo(TCustom))), JSONTag(<<99,117,115,116,111,109>>)) >>)

\* type Labelled struct { Name string `json:"name"`; Labels map[string]int `json:"labels"` }
TLabelled ==
    StructType(<<76,97,98,101,108,108,101,100>>, "main",
        << SF(<<78,97,109,101>>, TString, JSONTag(<<110,97,109,101>>)), SF(<<76,97,98,101,108,115>>, TLabels, JSONTag(<<108,97,98,101,108,115>>)) >>)

\* Operations whose parameters and responses have fields of the types above.
RuleOps ==
    { NewOperation(M_POST, P_u, "", TRuled, Nothing, Nothing),
      NewOperation(M_POST, P_a, "", TDeep, Nothing, Nothing),
      NewOperation(M_GET, P_ab, "", NoType, AsValue(TLabelled), Nothing) }

\* The types a program registers rules for.
RuleTypes == {TMyInt, TOtherInt, PtrTo(TMyString)}

\* The rules it registers.
RuleTypers == {SimpleDataTyper("string", "x"), SimpleDataTyper("boolean", "")}

\* The types of RuleTypes the registry has a rule for.
RuledTypes(s) == {t \in RuleTypes : NewField(t).Type \in DOMAIN s.dataTypesForTypes}

\* What the writer holds after WriteYAML wrote, or would have written, ls.
WriterWith(ls, before) ==
    [out |-> before,
     panic |-> IF Len(before) < Len(ls) THEN <<ls[Len(before) + 1]>> ELSE <<>>]

WriterAfter(ls) == WriterWith(ls, LinesBeforePanic(ls))

\* sa.WriteYAML(w) on an empty writer w: every line reaches w as it is
\* written, and a panic leaves w with the lines written before it.
Write ==
    /\ buf' = Strict(WriterAfter, WriteYAMLLines(sa))
    /\ UNCHANGED <<sa, yaml, dest, route, walk, added>>

AddRuled == \E op \in RuleOps : Add(op)

DefineRule ==
    \E t \in RuleTypes, dt \in RuleTypers :
        /\ Cardinality(RuledTypes(sa) \cup {t}) <= MaxRules
        /\ DefineDataType(t, dt)

NextRules == AddRuled \/ DefineRule \/ Write

\* Programs that register rules, add operations and write the document.
SpecRules == Init /\ [][NextRules]_vars

(***************************************************************************)
(* Rule lookup.                                                            *)
(***************************************************************************)
\* The descriptors rules are looked up for: of predeclared types, of types
\* derived from them, of pointers, of a map and of a struct.
RuleFields ==
    { NewField(t) : t \in {TInt, TString, TBool, TMyInt, TOtherInt, TMyString,
                           PtrTo(PtrTo(TMyInt)), PtrTo(PtrTo(TMyString)), TLabels,
                           TCustom, PtrTo(PtrTo(PtrTo(TCustom)))} }


\* C11: the lookup of a rule for a descriptor returns the rule registered
\* for its exact type when there is one, else the rule registered for its
\* kind when there is one, else not-found; and the descriptor counts as
\* mapped to a data type exactly when its exact type has a rule, so a type
\* that is found through its kind alone is not mapped.
C11_LookupExactThenKind ==
    \A f \in RuleFields :
        LET exact == f.Type \in DOMAIN sa.dataTypesForTypes
            kind == f.Kind \in DOMAIN sa.dataTypesForKinds
            d == dataTypeDefFor(sa, f)
        IN /\ exact => d.found /\ d.def = sa.dataTypesForTypes[f.Type]
           /\ ~exact /\ kind => d.found /\ d.def = sa.dataTypesForKinds[f.Kind]
           /\ ~exact /\ ~kind => ~d.found
           /\ isMappedToDataType(sa, f) <=> exact
           /\ d.found /\ ~exact => ~isMappedToDataType(sa, f)

\* OtherInt has a rule of its own, MyInt is found through the kind int and
\* is not mapped, and a map has no rule at all.
C11_Witness ==
    /\ TOtherInt \in DOMAIN sa.dataTypesForTypes
    /\ TMyInt \notin DOMAIN sa.dataTypesForTypes
    /\ dataTypeDefFor(sa, NewField(TMyInt)).found
    /\ ~isMappedToDataType(sa, NewField(TMyInt))
    /\ dataTypeDefFor(sa, NewField(TMyInt)).def = sa.dataTypesForKinds["int"]
    /\ ~dataTypeDefFor(sa, NewField(TLabels)).found

\* The type DefineDataType(v, rule) registers rule for, v of type t.
RegisteredType(t) == NewField(t).Type

\* C12: DefineDataType(v, rule) installs the rule for the type of v and for
\* the pointer to that type and for nothing else: whenever a call changes the
\* rules, the lookup of every descriptor of another type is the same before
\* and after it.
C12_OnlyTypeAndPointer ==
    [][ (sa'.dataTypesForTypes # sa.dataTypesForTypes
            \/ sa'.dataTypesForKinds # sa.dataTypesForKinds)
        => \E t \in RuleTypes, dt \in RuleTypers :
               /\ sa' = DefineDataTypeOn(sa, t, dt)
               /\ \A f \in RuleFields :
                      f.Type \notin {RegisteredType(t), PtrTo(RegisteredType(t))}
                          => dataTypeDefFor(sa', f) = dataTypeDefFor(sa, f) ]_vars

(***************************************************************************)
(* Failure of the generation.                                              *)
(***************************************************************************)
\* The descriptors WriteYAML writes a schema for: the request bodies and the
\* responses of the operations.
BodiesOf(o) ==
    (IF useRequestBody(o) THEN {o.Params} ELSE {})
        \cup {o.Responses[j].Field : j \in 1..Len(o.Responses)}

WrittenStructs(s) == UNION {BodiesOf(s.operations[i]) : i \in 1..Len(s.operations)}

\* The fields of the structs of fs that the lookup finds no rule for.
UnruledAmong(s, fs) ==
    UNION { {f \in {enumerateStructFields(g)[i] : i \in 1..Len(enumerateStructFields(g))} :
                 ~dataTypeDefFor(s, f).found}
            : g \in {h \in fs : h.Kind = "struct"} }

C16_AllOrNothing == buf.panic # <<>> => buf.out = <<>>

(***************************************************************************)
(* SelectMap.  A callback is a record; FnResult and FnLeaves are what the  *)
(* Go function of that name returns and what it leaves behind.             *)
(***************************************************************************)
\* func(op Operation) *Operation { return &op }
FnKeep == [fn |-> "keep"]
\* if op.Path == "/a/b" { return nil }; op.Path = "/v3" + op.Path; return &op
FnDrop == [fn |-> "drop"]
\* op.Method = "PUT"; op.Summary = "mapped"; return &op
FnRewrite == [fn |-> "rewrite"]
\* if len(op.Tags) > 0 { op.Tags[0] = "mapped" }; return &op
FnRetag == [fn |-> "retag"]
\* op.Tags = []string{"fresh"}; return &op
FnNewTags == [fn |-> "newtags"]

SelectFns == {FnKeep, FnDrop, FnRewrite, FnRetag, FnNewTags}

\* op.Tags after op.Tags[0] = "mapped", when there is a first element.
Retagged(tags) == IF Len(tags) > 0 THEN [tags EXCEPT ![1] = "mapped"] ELSE tags

\* *fn(op) as <<operation>>, and <<>> when fn(op) is nil.
FnResult(fn, op) ==
    CASE fn = FnKeep -> <<op>>
      [] fn = FnDrop -> IF op.Path = P_ab THEN <<>>
                        ELSE <<[op EXCEPT !.Path = <<47,118,51>> \o @]>>
      [] fn = FnRewrite -> <<[op EXCEPT !.Method = M_PUT, !.Summary = "mapped"]>>
      [] fn = FnRetag -> <<[op EXCEPT !.Tags = Retagged(@)]>>
      [] fn = FnNewTags -> <<[op EXCEPT !.Tags = <<"fresh">>]>>

\* The Operation the caller of fn(op) holds after the call.  fn works on a
\* copy of the struct, whose Tags slice has the backing array of the
\* caller's: an assignment to op.Tags[0] writes the caller's element, every
\* other assignment stays in the copy.
FnLeaves(fn, op) == IF fn = FnRetag THEN [op EXCEPT !.Tags = Retagged(@)] ELSE op

\* The loop body of SelectMap: dest.Add(*newOp) when newOp is not nil.
selectMapAdd(d, newOp) == IF newOp # <<>> THEN AddOn(d, newOp[1]) ELSE d

\* SelectMap that keeps the method, path and operationId the source computed.
SelectMapDest_KeepComputed(source, fn) ==
    LET kept == SelectSeq(source.operations,
                          LAMBDA o : FnResult(fn, o.Original) # <<>>)
    IN [source EXCEPT
           !.dataTypesForKinds = EmptyMap,
           !.operations =
               [i \in 1..Len(kept) |->
                   [toInternalOperation(FnResult(fn, kept[i].Original)[1]) EXCEPT
                       !.Method = kept[i].Method, !.Path = kept[i].Path,
                       !.OperationID = kept[i].OperationID]]]

\* The registry SelectMap(source, fn) returns.  dataTypesForKinds is not
\* set: it is the nil map, which reads as an empty one.
SelectMapDest(source, fn) ==
    LET dest0 == [DefaultContentType |-> source.DefaultContentType,
                  title |-> source.title, desc |-> source.desc, version |-> source.version,
                  tos |-> source.tos, contactName |-> source.contactName,
                  contactURL |-> source.contactURL, contactEmail |-> source.contactEmail,
                  licenseName |-> source.licenseName, licenseURL |-> source.licenseURL,
                  servers |-> source.servers, securities |-> source.securities,
                  tags |-> source.tags, dataTypesForTypes |-> source.dataTypesForTypes,
                  dataTypesForKinds |-> EmptyMap, operations |-> <<>>]
        F[i \in 0..Len(source.operations)] ==
            IF i = 0 THEN dest0
            ELSE selectMapAdd(F[i - 1], FnResult(fn, source.operations[i].Original))
    IN F[Len(source.operations)]

\* The source after SelectMap(source, fn): internalOperation.Tags and
\* Original.Tags are the one slice fn was handed a copy of.
SelectMapSource(source, fn) ==
    [source EXCEPT !.operations =
        [i \in 1..Len(source.operations) |->
            [source.operations[i] EXCEPT
                !.Original = FnLeaves(fn, @),
                !.Tags = FnLeaves(fn, source.operations[i].Original).Tags]]]

\* Whether SelectMap(source, fn) panics: in dest.Add, on the operationId.
SelectMapPanics(source, fn) ==
    \E i \in 1..Len(source.operations) :
        /\ FnResult(fn, source.operations[i].Original) # <<>>
        /\ NewOperationIDPanics(FnResult(fn, source.operations[i].Original)[1])

\* Operation.AddTags(tags...) on an operation without tags.
AddTags(op, tags) == [op EXCEPT !.Tags = @ \o tags]

\* Operations with and without tags.
SelectOps ==
    { AddTags(NewOperation(M_GET, P_ab, "", NoType, Nothing, Nothing), <<"admin">>),
      NewOperation(M_GET, P_u, "", NoType, Nothing, Nothing),
      AddTags(NewOperation(M_POST, P_a, "", TParams, AsValue(TUser), Nothing), <<"admin", "beta">>) }

\* A program adds its operations before it derives a registry.
AddSelected == \E op \in SelectOps : dest = <<>> /\ Add(op)

\* The most servers, tags and security schemes a program adds, of each.
MaxItems == 1

\* sa.DefaultContentType = "application/xml"
SetDefaultContentType ==
    /\ sa' = [sa EXCEPT !.DefaultContentType = "application/xml"]
    /\ UNCHANGED <<yaml, dest, buf, route, walk, added>>

\* sa.AddServer("server.com", "the server")
AddServer ==
    /\ Len(sa.servers) < MaxItems
    /\ sa' = [sa EXCEPT !.servers = Append(@, [url |-> "server.com", desc |-> "the server"])]
    /\ UNCHANGED <<yaml, dest, buf, route, walk, added>>

\* sa.AddTag("admin", "administration")
AddTag ==
    /\ Len(sa.tags) < MaxItems
    /\ sa' = [sa EXCEPT !.tags = Append(@, [name |-> "admin", desc |-> "administration"])]
    /\ UNCHANGED <<yaml, dest, buf, route, walk, added>>

\* sa.AddBasicAuthSecurity()
AddBasicAuthSecurity ==
    /\ Len(sa.securities) < MaxItems
    /\ sa' = [sa EXCEPT !.securities =
                  Append(@, (K_id :> "basicAuth") @@ (K_type :> "http")
                                @@ (<<115,99,104,101,109,101>> :> "basic"))]
    /\ UNCHANGED <<yaml, dest, buf, route, walk, added>>

\* A program describes its registry before it derives another from it.
Describe ==
    /\ dest = <<>>
    /\ (SetDefaultContentType \/ AddServer \/ AddTag \/ AddBasicAuthSecurity)

\* dest = SelectMap(sa, fn).
SelectMap(fn) ==
    /\ ~SelectMapPanics(sa, fn)
    /\ dest' = <<SelectMapDest(sa, fn)>>
    /\ sa' = SelectMapSource(sa, fn)
    /\ UNCHANGED <<yaml, buf, route, walk, added>>

Select == \E fn \in SelectFns : SelectMap(fn)

\* dest.Add(NewOperation("GET", "/u", ...)) on the registry SelectMap
\* returned.
DestAdd ==
    /\ dest # <<>>
    /\ Len(dest[1].operations) < MaxOps
    /\ dest' = <<AddOn(dest[1], NewOperation(M_GET, P_u, "", NoType, Nothing, Nothing))>>
    /\ UNCHANGED <<sa, yaml, buf, route, walk, added>>

NextSelect == AddSelected \/ Describe \/ Select \/ DestAdd

\* Programs that build a registry and then derive registries from it.
SpecSelect == Init /\ [][NextSelect]_vars

\* C13: SelectMap never modifies its source, whatever the callback does with
\* the Operation it is given, and later changes of the result do not reach
\* the source either: over every step that makes or changes the derived
\* registry, the source and the text BuildYAML returns for it stay the same.
C13_SourceUnchanged ==
    [][ dest' # dest => sa' = sa /\ BuildYAML(sa') = BuildYAML(sa) ]_vars

\* The values *fn(op) for the operations op of source, in order, for which
\* fn(op) is not nil.
KeptBy(source, fn) ==
    LET rs == [i \in 1..Len(source.operations) |-> FnResult(fn, source.operations[i].Original)]
        kept == SelectSeq(rs, LAMBDA r : r # <<>>)
    IN [i \in 1..Len(kept) |-> kept[i][1]]

\* C14: the registry SelectMap(source, fn) returns has exactly the operations
\* *fn(op), in source order, for the source operations op with fn(op) not
\* nil; the method, translated path and operationId of each are computed
\* from the returned Operation; title, description, version, default content
\* type, servers, tags and security schemes are those of the source.
C14_SelectMapResult ==
    [][ \A fn \in SelectFns :
            dest' # dest /\ dest' = <<SelectMapDest(sa, fn)>> =>
                LET d == dest'[1]
                    kept == KeptBy(sa, fn)
                IN /\ Len(d.operations) = Len(kept)
                   /\ \A i \in 1..Len(kept) :
                          /\ d.operations[i].Original = kept[i]
                          /\ d.operations[i].Method = ToLower(kept[i].Method)
                          /\ d.operations[i].Path = NewPath(kept[i].Path)
                          /\ d.operations[i].OperationID = NewOperationID(kept[i])
                          /\ d.operations[i].Summary = kept[i].Summary
                          /\ d.operations[i].Tags = kept[i].Tags
                   /\ d.title = sa.title
                   /\ d.desc = sa.desc
                   /\ d.version = sa.version
                   /\ d.DefaultContentType = sa.DefaultContentType
                   /\ d.servers = sa.servers
                   /\ d.tags = sa.tags
                   /\ d.securities = sa.securities ]_vars

\* A described registry of two operations, and the registry SelectMap made
\* of it by dropping /a/b and prefixing the other path.
C14_Witness ==
    /\ Len(sa.operations) = 2
    /\ sa.servers # <<>> /\ sa.tags # <<>> /\ sa.securities # <<>>
    /\ sa.DefaultContentType = "application/xml"
    /\ dest = <<SelectMapDest(sa, FnDrop)>>
    /\ Len(dest[1].operations) = 1
    /\ dest[1].operations[1].Path # sa.operations[2].Path
    /\ dest[1].operations[1].OperationID # sa.operations[2].OperationID

(***************************************************************************)
(* Programs that translate paths with NewPath.                             *)
(***************************************************************************)
\* The longest route a program translates.
MaxPathLen == 5

\* The bytes routes are made of: / : a _ { }
PathBytes == {47, 58, 97, 95, 123, 125}

\* The routes of at most n bytes.
RECURSIVE RoutesUpTo(_)
RoutesUpTo(n) ==
    IF n = 0 THEN {<<>>}
    ELSE RoutesUpTo(n - 1)
             \cup {Append(r, b) : r \in {q \in RoutesUpTo(n - 1) : Len(q) = n - 1}, b \in PathBytes}

\* The most calls of NewPath a program chains.
MaxCalls == 2

\* p = NewPath(string(p)), and p = NewPath(s) the first time.
Translate ==
    /\ route.calls < MaxCalls
    /\ route' = [route EXCEPT !.out = NewPath(@), !.calls = @ + 1]
    /\ UNCHANGED <<sa, yaml, dest, buf, walk, added>>

InitPaths ==
    /\ sa = New("title", "desc", "0.0.1")
    /\ yaml = <<>>
    /\ dest = <<>>
    /\ buf = NoWrite
    /\ route \in {NewRoute(s) : s \in RoutesUpTo(MaxPathLen)}
    /\ walk = NoWalk
    /\ added = NoAdd

NextPaths == Translate

\* Programs that translate a route, and the result again.
SpecPaths == InitPaths /\ [][NextPaths]_vars

\* A segment as the translation describes it: :name with an alphanumeric,
\* non-empty name becomes {name}, every other segment stays as it is.
TranslatedSegment(seg) ==
    IF Len(seg) >= 2 /\ seg[1] = 58 /\ \A i \in 2..Len(seg) : IsAlnum(seg[i])
    THEN <<123>> \o Tail(seg) \o <<125>>
    ELSE seg

\* The segments segs joined by "/".
RECURSIVE JoinSegments(_)
JoinSegments(segs) ==
    IF Len(segs) = 1 THEN segs[1]
    ELSE segs[1] \o <<47>> \o JoinSegments(Tail(segs))

\* s with every segment translated; the text before the first "/" is not a
\* segment of the form /:name.
TranslatedBySegment(s) ==
    LET segs == Split(s, 47)
    IN JoinSegments([i \in 1..Len(segs) |->
                        IF i = 1 THEN segs[1] ELSE TranslatedSegment(segs[i])])

\* C17: NewPath returns a Path for every route; it replaces every segment
\* /:name with an alphanumeric name by /{name} and leaves segments in {name}
\* form and all other text as they are; and translating the result again
\* changes nothing.
C17_NewPathBySegment ==
    route.calls >= 1 => route.out = TranslatedBySegment(route.in)

\* The half of C17 about translating twice: the second NewPath returns what
\* the first returned.
C17_Idempotent == route.calls = 2 => route.out = NewPath(route.in)

(***************************************************************************)
(* Programs that add operations of similar routes.                         *)
(***************************************************************************)
\* /a/b and routes that differ from it in one byte or in the parameter form.
IDPaths == {<<47,97,47,98>>, <<47,97,45,98>>, <<47,97,95,98>>, <<47,97,47,58,98>>, <<47,97,47,123,98,125>>, <<47,97,98>>, <<47,97,47,66>>, <<47,97>>}

IDOps ==
    { NewOperation(m, p, "", NoType, Nothing, Nothing) : m \in {M_GET, M_POST}, p \in IDPaths }

AddID == \E op \in IDOps : Add(op)

NextIDs == AddID

SpecIDs == Init /\ [][NextIDs]_vars

\* C18: the operationId is unique for the method and endpoint: two
\* operations that differ in the lower-cased method or in the translated
\* path have different operationIds.
C18_OperationIDUnique ==
    \A i, j \in 1..Len(sa.operations) :
        (sa.operations[i].Method # sa.operations[j].Method
             \/ sa.operations[i].Path # sa.operations[j].Path)
            => sa.operations[i].OperationID # sa.operations[j].OperationID

(***************************************************************************)
(* Programs that return structs with embedded structs.                     *)
(***************************************************************************)
\* type Inside struct { nothere int; InsideField string `json:"insideField"` }
TInside ==
    StructType(<<73,110,115,105,100,101>>, "main",
        << SF(<<110,111,116,104,101,114,101>>, TInt, NoTag), SF(<<73,110,115,105,100,101,70,105,101,108,100>>, TString, JSONTag(<<105,110,115,105,100,101,70,105,101,108,100>>)) >>)

\* type ExportedBase struct { hidden bool; ExportedResult Inside `json:"exportedResult"` }
TExportedBase ==
    StructType(<<69,120,112,111,114,116,101,100,66,97,115,101>>, "main",
        << SF(<<104,105,100,100,101,110>>, TBool, NoTag), SF(<<69,120,112,111,114,116,101,100,82,101,115,117,108,116>>, TInside, JSONTag(<<101,120,112,111,114,116,101,100,82,101,115,117,108,116>>)) >>)

\* type unexportedBase struct { unexported string; UnexportedResult Inside `json:"unexportedResult"` }
TunexportedBase ==
    StructType(<<117,110,101,120,112,111,114,116,101,100,66,97,115,101>>, "main",
        << SF(<<117,110,101,120,112,111,114,116,101,100>>, TString, NoTag),
           SF(<<85,110,101,120,112,111,114,116,101,100,82,101,115,117,108,116>>, TInside, JSONTag(<<117,110,101,120,112,111,114,116,101,100,82,101,115,117,108,116>>)) >>)

\* type Embeds struct { ExportedBase; unexportedBase }
TEmbeds == StructType(<<69,109,98,101,100,115>>, "main", << Embedded(TExportedBase), Embedded(TunexportedBase) >>)

\* type Nested struct { First int `json:"first"`; Embeds; Last int `json:"last"` }
TNested ==
    StructType(<<78,101,115,116,101,100>>, "main",
        << SF(<<70,105,114,115,116>>, TInt, JSONTag(<<102,105,114,115,116>>)), Embedded(TEmbeds),
           SF(<<76,97,115,116>>, TInt, JSONTag(<<108,97,115,116>>)) >>)

\* type Shadow struct { Base; ID string `json:"id"` }
TShadow ==
    StructType(<<83,104,97,100,111,119>>, "main", << Embedded(TBase), SF(<<73,68>>, TString, JSONTag(<<105,100>>)) >>)

\* type Twins struct { Base; User }: Base and User both have a field ID.
TTwins == StructType(<<84,119,105,110,115>>, "main", << Embedded(TBase), Embedded(TUser) >>)

WalkTypes == {TInside, TPet, TEmbeds, TNested, TShadow, TTwins}

WalkOps ==
    { NewOperation(m, P_a, "", NoType, AsValue(t), Nothing) : m \in {M_GET, M_POST}, t \in WalkTypes }

AddWalked == \E op \in WalkOps : Add(op)

NextWalk == AddWalked \/ Build

\* Programs that add operations returning such structs.
SpecWalk == Init /\ [][NextWalk]_vars

\* The visible fields of struct type t as <<name, type>> pairs: a named
\* field with an uppercase first letter, in its place; nothing for a named
\* field with a lowercase first letter; the visible fields of the embedded
\* struct in the place of an embedded field.
RECURSIVE VisiblePairs(_)
VisiblePair(sf) ==
    IF sf.Anonymous THEN VisiblePairs(sf.Type)
    ELSE IF sf.Name[1] >= 65 /\ sf.Name[1] <= 90 THEN << <<sf.Name, sf.Type>> >>
    ELSE <<>>

VisiblePairs(t) == Flatten([i \in 1..Len(t.fields) |-> VisiblePair(t.fields[i])])

\* The struct descriptors of the responses of the operations.
ResponseStructs(s) ==
    {f \in UNION {BodiesOf([s.operations[i] EXCEPT !.Params = NilField]) : i \in 1..Len(s.operations)} :
         f.Kind = "struct"}

\* The fields fs as <<name, type>> pairs.
WalkedPairs(fs) == [k \in 1..Len(fs) |-> <<fs[k].StructField.Name, fs[k].Type>>]

\* C19: the visible-field sequence of a struct holds, in declaration order,
\* every named field whose name starts with an uppercase letter, no named
\* field whose name starts with a lowercase letter, and in the place of each
\* embedded field the visible fields of the embedded struct, recursively.
C19_VisibleFields ==
    \A f \in ResponseStructs(sa) :
        /\ ~HasPanic(enumerateStructFields(f))
        /\ WalkedPairs(enumerateStructFields(f)) = VisiblePairs(f.Type)

(***************************************************************************)
(* Programs whose operations have bodies of different kinds.               *)
(***************************************************************************)
\* Operations with struct, slice and string bodies, in requests and in
\* responses.
BodyOps ==
    { NewOperation(M_GET, P_a, "plain", NoType,
                   AsResponse(NewResponse(200, "desc", TString)), AsValue(TString)),
      NewOperation(M_GET, P_ab, "", NoType, AsValue(TUser), AsValue(TErrorModel)),
      NewOperation(M_GET, P_u, "", NoType, AsValue(TMyString), AsValue(TUser)),
      NewOperation(M_GET, P_ax, "", NoType, AsValue(SliceOf(TString)), Nothing),
      NewOperation(M_POST, P_a, "", TUser, AsValue(TString), Nothing),
      NewOperation(M_PUT, P_u, "", TUser, AsValue(TUser), AsValue(TString)),
      NewOperation(M_POST, P_ab, "", TString, Nothing, Nothing) }

AddBody == \E op \in BodyOps : Add(op)

NextBodies == AddBody \/ SetDefaultContentType \/ Write

\* Programs that add such operations and write the document.
SpecBodies == Init /\ [][NextBodies]_vars

\* The content types in the lines out: what follows each "content:" line.
ContentTypesIn(out) ==
    LET at == SelectSeq([i \in 1..Len(out) |-> i],
                        LAMBDA i : out[i][2] = "content:" /\ i < Len(out))
    IN [k \in 1..Len(at) |->
           IF out[at[k] + 1][2] = "text/plain:" THEN "text/plain" ELSE out[at[k] + 1][3][1]]

\* The bodies of operation o in the order they are written: the request
\* body, then the responses that have one.
BodySeq(o) ==
    (IF useRequestBody(o) THEN <<o.Params>> ELSE <<>>)
        \o SelectSeq([j \in 1..Len(o.Responses) |-> o.Responses[j].Field], LAMBDA f : ~f.Nil)

\* The content type of a body: text/plain for a string, the default for
\* every other.
ContentTypeOf(s, f) == IF f.Kind = "string" THEN "text/plain" ELSE s.DefaultContentType

\* The content types of all bodies of the document, in its order.
ExpectedContentTypes(s) ==
    LET ops == sortedOperations(s)
        bodies == Flatten([i \in 1..Len(ops) |-> BodySeq(ops[i])])
    IN [k \in 1..Len(bodies) |-> ContentTypeOf(s, bodies[k])]

\* C20: a body of string kind is written under text/plain and every other
\* body under the registry's DefaultContentType, request bodies and
\* responses alike, each body by its own kind only.
C20_ContentTypes ==
    [][ buf' # buf => ContentTypesIn(buf'.out) = ExpectedContentTypes(sa) ]_vars

(***************************************************************************)
(* Parameter types and the components.                                     *)
(***************************************************************************)
\* The named struct types reachable from the Params of an operation of the
\* registry: directly, as a slice element, or through visible fields.
ParamNamedStructs(s) ==
    LET with == { i \in 1..Len(s.operations) : ~s.operations[i].Params.Nil }
        direct == { Walked(s.operations[i].Params.Type) : i \in with }
        all == ReachableFrom({ t \in direct : t.kind = "struct" })
    IN { t \in all : t.name # <<>> }

\* The struct types that only parameters reach.
ParamOnlyStructs(s) == ParamNamedStructs(s) \ ReachableNamedStructs(s)

\* C21: a struct type that is reachable from the Params of operations only,
\* and from no response, is no entry of components/schemas.
C21_ParamTypesNoComponent ==
    Fresh =>
        \A t \in ParamOnlyStructs(sa) :
            \A n \in 1..Len(ComponentNames(yaml)) : ComponentNames(yaml)[n] # t.name

\* A text built for a POST whose request body has an Address and a Custom
\* field, types that no response uses, next to an operation returning User.
C21_Witness ==
    /\ Fresh
    /\ Len(sa.operations) = 2
    /\ \E i \in 1..2 :
           /\ sa.operations[i].Params.Type = TParams
           /\ sa.operations[i].Method = <<112,111,115,116>>
    /\ TAddress \in ParamOnlyStructs(sa)
    /\ ComponentNames(yaml) = << <<85,115,101,114>> >>

(***************************************************************************)
(* Parameters and request body properties by struct tag.                   *)
(***************************************************************************)
\* struct {
\*     ID     int    `path:"id" query:"q" header:"h"`
\*     Q      string `query:"q" header:"h" description:"d"`
\*     H      string `header:"X-H"`
\*     N      string `json:"n"`
\*     B      int    `path:"b" json:"b"`
\*     hidden int    `query:"hidden" json:"hidden"`
\*     Skip   string `json:"-"`
\*     O      string `json:",omitempty"`
\*     Plain  string
\* }
TTagged ==
    StructType(<<>>, "",
        << SF(<<73,68>>, TInt, [NoTag EXCEPT !.path = "id", !.query = "q", !.header = "h"]),
           SF(<<81>>, TString, [NoTag EXCEPT !.query = "q", !.header = "h", !.description = "d"]),
           SF(<<72>>, TString, [NoTag EXCEPT !.header = "X-H"]),
           SF(<<78>>, TString, JSONTag(<<110>>)),
           SF(<<66>>, TInt, [NoTag EXCEPT !.path = "b", !.json = <<98>>]),
           SF(<<104,105,100,100,101,110>>, TInt, [NoTag EXCEPT !.query = "hidden", !.json = <<104,105,100,100,101,110>>]),
           SF(<<83,107,105,112>>, TString, JSONTag(<<45>>)),
           SF(<<79>>, TString, JSONTag(<<44,111,109,105,116,101,109,112,116,121>>)),
           SF(<<80,108,97,105,110>>, TString, NoTag) >>)

\* struct { N string `json:"n"`; Skip int `json:"-" header:"X-Skip"` }
TBodyOnly ==
    StructType(<<>>, "",
        << SF(<<78>>, TString, JSONTag(<<110>>)),
           SF(<<83,107,105,112>>, TInt, [NoTag EXCEPT !.json = <<45>>, !.header = "X-Skip"]) >>)

\* struct { Plain string; hidden int `path:"hidden"` }
TUntagged ==
    StructType(<<>>, "",
        << SF(<<80,108,97,105,110>>, TString, NoTag),
           SF(<<104,105,100,100,101,110>>, TInt, [NoTag EXCEPT !.path = "hidden"]) >>)

\* The parameter structs, each with the route its operations have.
TagRoutes ==
    { <<TTagged, <<47,116,47,58,105,100,47,58,98>>>>, <<TBodyOnly, <<47,98>>>>, <<TUntagged, <<47,117>>>>,
      <<TEmptyParams, <<47,101>>>> }

TagOps ==
    { NewOperation(m, r[2], "", r[1], Nothing, Nothing) :
          m \in {M_GET, M_POST, M_PUT}, r \in TagRoutes }

AddTagged == \E op \in TagOps : Add(op)

NextTags == AddTagged \/ Build

\* Programs that add operations whose parameter structs differ in their tags.
SpecTags == Init /\ [][NextTags]_vars

\* The declared fields of struct type t whose name is exported.
VisibleStructFields(t) == SelectSeq(t.fields, LAMBDA sf : sf.Name[1] \in 65..90)

\* Where a parameter of struct field sf is: "path", "query" or "header" by
\* the first of these tags that is not empty, and "" when all are.
ParamIn(sf) ==
    IF sf.Tag.path # "" THEN "path"
    ELSE IF sf.Tag.query # "" THEN "query"
    ELSE IF sf.Tag.header # "" THEN "header"
    ELSE ""

\* The entries the parameters of struct type t are documented to have: the
\* name, the place and whether it is required, in field order.
ExpectedParams(t) ==
    LET tagged == SelectSeq(VisibleStructFields(t), LAMBDA sf : ParamIn(sf) # "")
    IN [k \in 1..Len(tagged) |->
           [name |-> IF ParamIn(tagged[k]) = "path" THEN tagged[k].Tag.path
                     ELSE IF ParamIn(tagged[k]) = "query" THEN tagged[k].Tag.query
                     ELSE tagged[k].Tag.header,
            in |-> ParamIn(tagged[k]),
            required |-> ParamIn(tagged[k]) = "path"]]

\* The entries of the parameters of emitted operation e, as the text has them.
EmittedParams(y, e) ==
    LET ks == Indices(y, LAMBDA i : i \in e.from..e.to /\ y[i][2] = "- name: %s")
    IN [k \in 1..Len(ks) |->
           [name |-> y[ks[k]][3][1],
            in |-> y[ks[k] + 1][3][1],
            required |-> y[ks[k] + 2] = <<4, "  required: true", <<>>>>]]

\* How often the key parameters: is written for emitted operation e.
ParametersKeys(y, e) ==
    Cardinality({i \in e.from..e.to : y[i] = <<3, "parameters:", <<>>>>})

\* The names of the properties of the request body of emitted operation e.
EmittedBodyProperties(y, e) ==
    LET ks == Indices(y, LAMBDA i : i \in e.from..e.to /\ y[i][1] = 8 /\ y[i][2] = "%s:")
    IN [k \in 1..Len(ks) |-> y[ks[k]][3][1]]

\* The names the request body of an operation with parameter struct t is
\* documented to have: the non-empty JSON names of its visible fields.
ExpectedBodyProperties(t) ==
    LET named == SelectSeq(VisibleStructFields(t), LAMBDA sf : jsonName(sf) # <<>>)
    IN [k \in 1..Len(named) |-> jsonName(named[k])]

\* What C22 says of emitted operation e, made from operation o.
ParamsAsTagged(y, e, o) ==
    /\ EmittedParams(y, e) = ExpectedParams(o.Params)
    /\ ParametersKeys(y, e) = (IF ExpectedParams(o.Params) = <<>> THEN 0 ELSE 1)
    /\ EmittedBodyProperties(y, e)
           = (IF HasRequestBody(y, e) THEN ExpectedBodyProperties(o.Params) ELSE <<>>)

\* C22: every emitted operation has one parameters entry for each visible
\* field of its parameter struct with a non-empty path, query or header tag,
\* named and placed by the first of these tags, required exactly when in the
\* path; the key parameters: is there exactly when there is an entry; and
\* the properties of its request body are the visible fields whose json tag
\* gives a non-empty name.
C22_ParamsByTag ==
    Fresh =>
        LET es == EmittedOperations(yaml)
        IN \A n \in 1..Len(es) :
               \E i \in 1..Len(sa.operations) :
                   /\ sa.operations[i].Path = es[n].path
                   /\ sa.operations[i].Method = es[n].method
                   /\ ParamsAsTagged(yaml, es[n], sa.operations[i].Original)

\* A text built for a POST with the struct of all tag combinations: four
\* parameters, two in the path, and three request body properties.
C22_Witness ==
    /\ Fresh
    /\ Len(sa.operations) = 2
    /\ sa.operations[1].Original.Params = TTagged
    /\ sa.operations[1].Method = <<112,111,115,116>>
    /\ sa.operations[2].Original.Params = TBodyOnly
    /\ sa.operations[2].Method = <<112,117,116>>
    /\ LET es == EmittedOperations(yaml)
       IN /\ Len(es) = 2
          /\ Len(EmittedParams(yaml, es[2])) = 4
          /\ EmittedBodyProperties(yaml, es[2]) = << <<110>>, <<98>>, <<79>> >>
          /\ ParametersKeys(yaml, es[1]) = 1
          /\ EmittedBodyProperties(yaml, es[1]) = << <<110>> >>

(***************************************************************************)
(* Struct types with a rule of their own, in every place a schema is       *)
(* written.                                                                *)
(***************************************************************************)
\* type Stamp struct{}
TStamp == StructType(<<83,116,97,109,112>>, "main", <<>>)

\* type instant struct { Sec int `json:"sec"` }
Tinstant == StructType(<<105,110,115,116,97,110,116>>, "main", << SF(<<83,101,99>>, TInt, JSONTag(<<115,101,99>>)) >>)

\* type Holder struct {
\*     At     instant `json:"at"`
\*     Made   Stamp   `json:"made"`
\*     Custom Custom  `json:"custom"`
\*     All    []Stamp `json:"all"`
\* }
THolder ==
    StructType(<<72,111,108,100,101,114>>, "main",
        << SF(<<65,116>>, Tinstant, JSONTag(<<97,116>>)),
           SF(<<77,97,100,101>>, TStamp, JSONTag(<<109,97,100,101>>)),
           SF(<<67,117,115,116,111,109>>, TCustom, JSONTag(<<99,117,115,116,111,109>>)),
           SF(<<65,108,108>>, SliceOf(TStamp), JSONTag(<<97,108,108>>)) >>)

\* The struct types the programs register a rule for.
MappedTypes == {TStamp, Tinstant, TCustom}

\* Operations that return a struct type as it is, in a slice, and as the
\* type of a field, and one that takes it in the request body; each has a
\* route of its own.
MappedOps ==
    { NewOperation(M_GET, <<47,115,116,97,109,112>>, "", NoType, AsValue(TStamp), Nothing),
      NewOperation(M_GET, <<47,105,110,115,116,97,110,116>>, "", NoType, AsValue(Tinstant), Nothing),
      NewOperation(M_GET, <<47,99,117,115,116,111,109>>, "", NoType, AsValue(TCustom), Nothing),
      NewOperation(M_GET, <<47,115,116,97,109,112,115>>, "", NoType, AsValue(SliceOf(TStamp)), Nothing),
      NewOperation(M_GET, <<47,104,111,108,100,101,114>>, "", NoType, AsValue(THolder), Nothing),
      NewOperation(M_POST, <<47,104,111,108,100,101,114,115>>, "", THolder, Nothing, Nothing) }

AddMapped == \E op \in MappedOps : Add(op)

\* sa.DefineDataType(T{}, SimpleDataTyper("string", "date-time"))
DefineMapped == \E t \in MappedTypes : DefineDataType(t, SimpleDataTyper("string", "date-time"))

NextMapped == AddMapped \/ DefineMapped \/ Build

\* Programs that register rules for struct types and use the types in
\* responses, fields and request bodies.
SpecMapped == Init /\ [][NextMapped]_vars

\* The lines under line k of y: those after it, up to the next line that is
\* not indented deeper than it.
BlockAt(y, k) ==
    LET closes == {i \in (k + 1)..Len(y) : y[i][1] <= y[k][1]}
        stop == IF closes = {} THEN Len(y) + 1
                ELSE CHOOSE i \in closes : \A j \in closes : i <= j
    IN SubSeq(y, k + 1, stop - 1)

\* Whether type t is a struct type with a rule of its own in s, or a slice
\* of one.
RuledStruct(s, t) ==
    LET e == IF t.kind = "slice" THEN t.elem ELSE t
    IN e.kind = "struct" /\ e \in DOMAIN s.dataTypesForTypes

\* The schema of type t, a struct type with a rule or a slice of one, as its
\* rule renders it.
ThroughRule(s, indent, t) ==
    IF t.kind = "slice"
    THEN <<Ln(indent, "type: array", <<>>), Ln(indent, "items:", <<>>)>>
             \o writeDataType(s, indent + 1, NewField(t.elem))
    ELSE writeDataType(s, indent, NewField(t))

\* The lines of y, among those of set within, that name a property at this
\* indent whose struct field in t has a type with a rule.
RuledProperties(s, y, within, indent, t) ==
    { <<k, i>> \in within \X (1..Len(t.fields)) :
          /\ y[k] = Ln(indent, "%s:", <<jsonName(t.fields[i])>>)
          /\ RuledStruct(s, t.fields[i].Type) }

\* C23, responses: the schema of a response whose type is a struct type
\* with a rule, or a slice of one, is what the rule renders.
C23_InResponses ==
    LET es == EmittedOperations(yaml)
    IN \A n \in 1..Len(es) : \A i \in 1..Len(sa.operations) :
           /\ sa.operations[i].Path = es[n].path
           /\ ~sa.operations[i].Responses[1].Field.Nil
           /\ RuledStruct(sa, sa.operations[i].Responses[1].Field.Type)
           => \A k \in es[n].from..es[n].to :
                  yaml[k] = Ln(7, "schema:", <<>>) =>
                      BlockAt(yaml, k)
                          = ThroughRule(sa, 8, sa.operations[i].Responses[1].Field.Type)

\* C23, fields: under a property of Holder, in its component and in the
\* request body made of it, a struct type with a rule, or a slice of one, is
\* what the rule renders.
C23_InFields ==
    /\ \A p \in RuledProperties(sa, yaml, SchemasBlock(yaml), 4, THolder) :
           BlockAt(yaml, p[1]) = ThroughRule(sa, 5, THolder.fields[p[2]].Type)
    /\ \A p \in RuledProperties(sa, yaml, PathsBlock(yaml), 8, THolder) :
           BlockAt(yaml, p[1]) = ThroughRule(sa, 9, THolder.fields[p[2]].Type)

\* C23: a struct type with an exact-type rule is rendered through that rule
\* wherever a schema is written for it: as a response, as a slice element,
\* as a field of a component and as a field of a request body, whether or
\* not it has fields and whether or not its name is exported.
C23_ExactRuleFirst == Fresh => C23_InResponses /\ C23_InFields

(***************************************************************************)
(* Slices as struct fields and as responses.                               *)
(***************************************************************************)
\* type List struct {
\*     Items []int    `json:"items"`
\*     Names []string `json:"names"`
\*     Users []User   `json:"users"`
\* }
TList ==
    StructType(<<76,105,115,116>>, "main",
        << SF(<<73,116,101,109,115>>, SliceOf(TInt), JSONTag(<<105,116,101,109,115>>)),
           SF(<<78,97,109,101,115>>, SliceOf(TString), JSONTag(<<110,97,109,101,115>>)),
           SF(<<85,115,101,114,115>>, SliceOf(TUser), JSONTag(<<117,115,101,114,115>>)) >>)

\* type Grid struct { Cells [][]int `json:"cells"` }
TGrid == StructType(<<71,114,105,100>>, "main", << SF(<<67,101,108,108,115>>, SliceOf(SliceOf(TInt)), JSONTag(<<99,101,108,108,115>>)) >>)

\* type Teams struct { Size int `json:"size"`; Members [][]User `json:"members"` }
TTeams ==
    StructType(<<84,101,97,109,115>>, "main",
        << SF(<<83,105,122,101>>, TInt, JSONTag(<<115,105,122,101>>)),
           SF(<<77,101,109,98,101,114,115>>, SliceOf(SliceOf(TUser)), JSONTag(<<109,101,109,98,101,114,115>>)) >>)

\* The struct types with slice fields.
SliceStructs == {TList, TGrid, TTeams}

\* Operations that return the structs, and the types of their slice fields
\* as responses of their own.
SliceOps ==
    { NewOperation(M_GET, <<47,120>>, "", NoType, AsValue(t), Nothing) :
          t \in SliceStructs \cup {SliceOf(TInt), SliceOf(TUser), SliceOf(SliceOf(TInt))} }

AddSliced == \E op \in SliceOps : Add(op)

NextSlices == AddSliced \/ Write

\* Programs that add operations returning slices and structs with slice
\* fields, and write the document.
SpecSlices == Init /\ [][NextSlices]_vars

\* The writer holds what WriteYAML writes for the registry as it is now.
Written == buf = Strict(WriterAfter, WriteYAMLLines(sa))

\* The struct types with slice fields that a response of the registry returns.
ReturnedSliceStructs(s) ==
    { t \in SliceStructs :
          \E i \in 1..Len(s.operations) : s.operations[i].Responses[1].Field.Type = t }

\* Whether the text has, in components/schemas, the property of struct
\* field sf with the schema its type gets as a response.
SliceFieldAsResponse(s, y, sf) ==
    \E k \in SchemasBlock(y) :
        /\ y[k] = Ln(4, "%s:", <<jsonName(sf)>>)
        /\ BlockAt(y, k) = writeRefSchema(s, 5, NewField(sf.Type))

\* The slice fields of struct type t.
SliceFields(t) == { i \in 1..Len(t.fields) : t.fields[i].Type.kind = "slice" }

\* C24: after WriteYAML, each slice field of a returned struct is in the
\* struct's component with the schema the slice type gets as a response:
\* type: array, and under items: the schema of the element, for an element
\* that is a basic type, a struct or again a slice.
C24_SliceFieldsRecursive ==
    Written =>
        \A t \in ReturnedSliceStructs(sa) : \A i \in SliceFields(t) :
            SliceFieldAsResponse(sa, buf.out, t.fields[i])

(***************************************************************************)
(* visitStructs call by call, over struct types that contain themselves.   *)
(* A Go struct type can hold itself only through a slice or a pointer, and *)
(* its reflect.Type is then a cyclic graph.  Here such a type is declared  *)
(* by name: a field's type names the struct, and Resolve puts the declared *)
(* fields in place of the name, one level at a time.                       *)
(***************************************************************************)
\* The frames of visitStructs the goroutine's stack has room for.
MaxDepth == 12

\* The struct type declared under name n, as the type of a field.
Named(n) == [kind |-> "named", name |-> n, pkg |-> "main"]

\* type Node struct { Value int `json:"value"`; Children []Node `json:"children"` }
\* type Employee struct { Name string `json:"name"`; Manager *Employee `json:"manager"` }
\* type Tree struct { Root *Node `json:"root"` }
\* type Ping struct { Pong *Pong `json:"pong"` }
\* type Pong struct { Pings []Ping `json:"pings"` }
\* type Member struct { ID int `json:"id"` }
\* type Team struct { Lead Member `json:"lead"`; Members []Member `json:"members"` }
DeclaredFields(n) ==
    CASE n = <<78,111,100,101>> ->
             << SF(<<86,97,108,117,101>>, TInt, JSONTag(<<118,97,108,117,101>>)),
                SF(<<67,104,105,108,100,114,101,110>>, SliceOf(Named(<<78,111,100,101>>)), JSONTag(<<99,104,105,108,100,114,101,110>>)) >>
      [] n = <<69,109,112,108,111,121,101,101>> ->
             << SF(<<78,97,109,101>>, TString, JSONTag(<<110,97,109,101>>)),
                SF(<<77,97,110,97,103,101,114>>, PtrTo(Named(<<69,109,112,108,111,121,101,101>>)), JSONTag(<<109,97,110,97,103,101,114>>)) >>
      [] n = <<84,114,101,101>> -> << SF(<<82,111,111,116>>, PtrTo(Named(<<78,111,100,101>>)), JSONTag(<<114,111,111,116>>)) >>
      [] n = <<80,105,110,103>> -> << SF(<<80,111,110,103>>, PtrTo(Named(<<80,111,110,103>>)), JSONTag(<<112,111,110,103>>)) >>
      [] n = <<80,111,110,103>> -> << SF(<<80,105,110,103,115>>, SliceOf(Named(<<80,105,110,103>>)), JSONTag(<<112,105,110,103,115>>)) >>
      [] n = <<77,101,109,98,101,114>> -> << SF(<<73,68>>, TInt, JSONTag(<<105,100>>)) >>
      [] n = <<84,101,97,109>> ->
             << SF(<<76,101,97,100>>, Named(<<77,101,109,98,101,114>>), JSONTag(<<108,101,97,100>>)),
                SF(<<77,101,109,98,101,114,115>>, SliceOf(Named(<<77,101,109,98,101,114>>)), JSONTag(<<109,101,109,98,101,114,115>>)) >>

\* Type t with the struct it names in place of the name.
RECURSIVE Resolve(_)
Resolve(t) ==
    IF t.kind = "named" THEN StructType(t.name, t.pkg, DeclaredFields(t.name))
    ELSE IF t.kind \in {"slice", "ptr"} THEN [t EXCEPT !.elem = Resolve(@)]
    ELSE t

\* The struct types that contain themselves, and those that do not.
SelfContaining == { <<78,111,100,101>>, <<69,109,112,108,111,121,101,101>>, <<84,114,101,101>>, <<80,105,110,103>>, <<80,111,110,103>> }

Acyclic == { <<77,101,109,98,101,114>>, <<84,101,97,109>> }

\* The response types the walk is started from: each struct, a pointer to
\* it and a slice of it.
VisitRoots ==
    UNION { { Named(n), PtrTo(Named(n)), SliceOf(Named(n)) } : n \in SelfContaining \cup Acyclic }

\* visitStructs(f0, visitor) up to its test of f.Kind: the Field the slice
\* element and the rule table make of f0.
visitedField(s, f0) ==
    LET f1 == IF f0.Kind = "slice" THEN ZeroSliceValueField(f0.Type) ELSE f0
        d == dataTypeDefFor(s, f1)
    IN IF d.found THEN d.def.Field ELSE f1

\* The walk w after the call visitStructs(f, visitor) is entered, f being
\* the Field of visitedField: a call on anything but a struct returns at
\* once; a call on a struct takes a frame of the stack, if there is room,
\* and hands the struct to the visitor.
visitCall(w, f) ==
    IF f.Kind # "struct" THEN w
    ELSE IF Len(w.stack) >= MaxDepth THEN [w EXCEPT !.status = "stack overflow"]
    ELSE [w EXCEPT !.stack = Append(@, [type |-> f.Type, next |-> 1]),
                   !.visited = Append(@, f.Type.name)]

\* The run has returned when its last frame has.
visitReturned(w) ==
    IF w.status = "walking" /\ w.stack = <<>> THEN [w EXCEPT !.status = "done"] ELSE w

\* The Field enumerateStructFields made of a struct field, with the struct
\* its type names.
ResolvedField(field) == NewFieldOf(Resolve(field.StructField.Type), field.StructField)

\* The walk w after the next step of its innermost call, whose frame is top
\* and whose enumerateStructFields is fields: the call on the next field,
\* or the return when there is none.
visitNext(s, w, top, fields) ==
    IF HasPanic(fields) THEN [w EXCEPT !.status = "panic"]
    ELSE IF top.next > Len(fields)
    THEN [w EXCEPT !.stack = SubSeq(@, 1, Len(@) - 1)]
    ELSE Strict(LAMBDA f : visitCall([w EXCEPT !.stack[Len(w.stack)].next = @ + 1], f),
                visitedField(s, ResolvedField(fields[top.next])))

\* sortedFieldsForSchema starts visitStructs on a response.
StartVisit ==
    \E t \in VisitRoots :
        /\ walk.status = "idle"
        /\ walk' = visitReturned(visitCall([NoWalk EXCEPT !.status = "walking"],
                                           visitedField(sa, NewField(Resolve(t)))))
        /\ UNCHANGED <<sa, yaml, dest, buf, route, added>>

\* The innermost call of visitStructs goes on by one field.
VisitStep ==
    /\ walk.status = "walking"
    /\ walk' = Strict(visitReturned,
                   Strict(LAMBDA fs : visitNext(sa, walk, walk.stack[Len(walk.stack)], fs),
                          enumerateStructFields(NewField(walk.stack[Len(walk.stack)].type))))
    /\ UNCHANGED <<sa, yaml, dest, buf, route, added>>

NextVisit == StartVisit \/ VisitStep

\* One run of the component walk.  The generation is synchronous: a call
\* that has started goes on until it returns or the process ends.
SpecVisit == Init /\ [][NextVisit]_vars /\ WF_vars(VisitStep)

\* C25: the component walk that has started on a response type returns,
\* also when the type is a struct that contains itself through a slice or a
\* pointer, directly or through other structs.
C25_WalkReturns == (walk.status = "walking") ~> (walk.status = "done")

\* The walk of a type that does not contain itself returns.
C25_AcyclicReturns ==
    (walk.status = "walking" /\ walk.visited[1] \in Acyclic) ~> (walk.status = "done")

\* The walk of a type that contains itself never returns.
C25_SelfContainingNeverDone ==
    walk.status = "done" => walk.visited = <<>> \/ walk.visited[1] \in Acyclic

(***************************************************************************)
(* Struct fields inside a component: inline or $ref.                       *)
(***************************************************************************)
\* type Outer struct {
\*     User   User      `json:"user"`
\*     Users  []User    `json:"users"`
\*     Inst   instant   `json:"inst"`
\*     Insts  []instant `json:"insts"`
\*     Anon   struct {
\*         Deep struct {
\*             Addr Address `json:"addr"`
\*         } `json:"deep"`
\*     } `json:"anon"`
\*     Empty  Stamp     `json:"empty"`
\*     Custom *Custom   `json:"custom"`
\* }
TOuter ==
    StructType(<<79,117,116,101,114>>, "main",
        << SF(<<85,115,101,114>>, TUser, JSONTag(<<117,115,101,114>>)),
           SF(<<85,115,101,114,115>>, SliceOf(TUser), JSONTag(<<117,115,101,114,115>>)),
           SF(<<73,110,115,116>>, Tinstant, JSONTag(<<105,110,115,116>>)),
           SF(<<73,110,115,116,115>>, SliceOf(Tinstant), JSONTag(<<105,110,115,116,115>>)),
           SF(<<65,110,111,110>>,
              StructType(<<>>, "",
                  << SF(<<68,101,101,112>>,
                        StructType(<<>>, "", << SF(<<65,100,100,114>>, TAddress, JSONTag(<<97,100,100,114>>)) >>),
                        JSONTag(<<100,101,101,112>>)) >>),
              JSONTag(<<97,110,111,110>>)),
           SF(<<69,109,112,116,121>>, TStamp, JSONTag(<<101,109,112,116,121>>)),
           SF(<<67,117,115,116,111,109>>, PtrTo(TCustom), JSONTag(<<99,117,115,116,111,109>>)) >>)

InlineOps ==
    { NewOperation(M_GET, <<47,111>>, "", NoType, AsValue(t), Nothing) :
          t \in {TOuter, SliceOf(TOuter), PtrTo(TOuter), TUser} }

AddInline == \E op \in InlineOps : Add(op)

NextInline == AddInline \/ DefineMapped \/ Build

\* Programs that return a struct whose fields are structs of every sort.
SpecInline == Init /\ [][NextInline]_vars

\* Whether Outer is the type of a response of s, as it is, behind a pointer
\* or in a slice.
ReturnsOuter(s) ==
    \E i \in 1..Len(s.operations) : Walked(s.operations[i].Responses[1].Field.Value) = TOuter

\* Whether struct type e is documented to be expanded inline: it has no
\* name, or its name is not exported.
DocumentedInline(e) == e.name = <<>> \/ ~(e.name[1] \in 65..90)

\* The struct fields a component of type t holds properties for: its own,
\* and those of the structs that are expanded inline in it.
RECURSIVE InlineStructFields(_)
InlineStructFields(t) ==
    { t.fields[i] : i \in 1..Len(t.fields) }
        \cup UNION { InlineStructFields(Walked(t.fields[i].Type)) :
                         i \in { j \in 1..Len(t.fields) :
                                     /\ Walked(t.fields[j].Type).kind = "struct"
                                     /\ DocumentedInline(Walked(t.fields[j].Type)) } }

\* The struct fields of Outer's component whose type is a struct, a pointer
\* to one or a slice of one.
OuterStructFields == { sf \in InlineStructFields(TOuter) : Walked(sf.Type).kind = "struct" }

\* The lines of components/schemas that name the property of struct field sf.
PropertyLines(y, sf) ==
    { k \in SchemasBlock(y) : /\ y[k][1] >= 4
                              /\ y[k][2] = "%s:"
                              /\ y[k][3] = <<jsonName(sf)>> }

\* Whether the lines under property line k are the schema of a field of
\* type t: for a slice, type: array and items:.
WellFormedProperty(y, k, t) ==
    t.kind = "slice" =>
        /\ Len(BlockAt(y, k)) >= 2
        /\ BlockAt(y, k)[1] = Ln(y[k][1] + 1, "type: array", <<>>)
        /\ BlockAt(y, k)[2] = Ln(y[k][1] + 1, "items:", <<>>)

\* The schema of the struct under property line k: the lines under it, for
\* a slice those under items:.
StructSchemaAt(y, k, t) ==
    IF t.kind = "slice" THEN SubSeq(BlockAt(y, k), 3, Len(BlockAt(y, k))) ELSE BlockAt(y, k)

\* The indent of that schema.
StructIndentAt(y, k, t) == IF t.kind = "slice" THEN y[k][1] + 2 ELSE y[k][1] + 1

\* Lines b at indent ind are struct e expanded inline: type: object,
\* properties:, and one property for each field of e.
ExpandedInline(b, ind, e) ==
    LET ps == SelectSeq(b, LAMBDA l : l[1] = ind + 1)
    IN /\ Len(b) >= 2
       /\ b[1] = Ln(ind, "type: object", <<>>)
       /\ b[2] = Ln(ind, "properties:", <<>>)
       /\ Len(ps) = Len(e.fields)
       /\ \A j \in 1..Len(ps) : ps[j] = Ln(ind + 1, "%s:", <<jsonName(e.fields[j])>>)

\* Lines b at indent ind are a $ref to struct e.
IsRefTo(b, ind, e) == b = << Ln(ind, "$ref: '%s'", << <<"#/components/schemas/", e.name>> >>) >>

\* The claim as the spec has it, for schema b of struct e.
InlineOrRef(b, ind, e) ==
    IF DocumentedInline(e) THEN ExpandedInline(b, ind, e) ELSE IsRefTo(b, ind, e)

\* What holds of schema b of struct e: a named exported struct without
\* fields is a bare object, and one with a rule of its own is what the rule
\* renders.
InlineRefOrObject(s, b, ind, e) ==
    IF e \in DOMAIN s.dataTypesForTypes
    THEN (DocumentedInline(e) \/ e.fields = <<>>) \/ b = writeDataType(s, ind, NewField(e))
    ELSE IF DocumentedInline(e) THEN ExpandedInline(b, ind, e)
    ELSE IF e.fields = <<>> THEN b = << Ln(ind, "type: object", <<>>) >>
    ELSE IsRefTo(b, ind, e)

\* Address, two anonymous structs below Outer, has a component of its own.
NestedDiscovered(s, y) ==
    ReturnsOuter(s) => Count(ComponentNames(y), LAMBDA n : n = TAddress.name) = 1

\* C26 as stated: in a component, a field whose type is a struct (or a
\* slice of one) is expanded inline if the struct has no name or an
\* unexported name, and is a $ref otherwise; a named struct under inline
\* anonymous structs has a component of its own.
C26_InlineIffUnnamedOrUnexported ==
    Fresh =>
        /\ NestedDiscovered(sa, yaml)
        /\ \A sf \in OuterStructFields : \A k \in PropertyLines(yaml, sf) :
               /\ WellFormedProperty(yaml, k, sf.Type)
               /\ InlineOrRef(StructSchemaAt(yaml, k, sf.Type),
                              StructIndentAt(yaml, k, sf.Type), Walked(sf.Type))

\* C26, amended: in a component, a field whose type is a struct without a
\* rule of its own (or a slice of one) is expanded inline if the struct has
\* no name or an unexported name; otherwise it is a bare object if the
\* struct has no fields and a $ref if it has; an exported struct with
\* fields and a rule is what the rule renders; a named struct under inline
\* anonymous structs has a component of its own.
C26_InlineRefOrObject ==
    Fresh =>
        /\ NestedDiscovered(sa, yaml)
        /\ \A sf \in OuterStructFields : \A k \in PropertyLines(yaml, sf) :
               /\ WellFormedProperty(yaml, k, sf.Type)
               /\ InlineRefOrObject(sa, StructSchemaAt(yaml, k, sf.Type),
                                    StructIndentAt(yaml, k, sf.Type), Walked(sf.Type))

\* A text built for a response of Outer, with a rule for Custom: the
\* property of every struct field is in the component of Outer, Address
\* among them, User is a $ref and custom is what the rule renders.
C26_Witness ==
    /\ Fresh
    /\ ReturnsOuter(sa)
    /\ TCustom \in DOMAIN sa.dataTypesForTypes
    /\ \A sf \in OuterStructFields : Cardinality(PropertyLines(yaml, sf)) = 1
    /\ Cardinality(OuterStructFields) = 9
    /\ \E k \in SchemasBlock(yaml) :
           /\ yaml[k] = Ln(4, "%s:", << <<117,115,101,114>> >>)
           /\ IsRefTo(BlockAt(yaml, k), 5, TUser)
    /\ \E k \in SchemasBlock(yaml) :
           /\ yaml[k] = Ln(4, "%s:", << <<99,117,115,116,111,109>> >>)
           /\ BlockAt(yaml, k) = << Ln(5, "%s: %s", << <<116,121,112,101>>, "string" >>),
                                    Ln(5, "%s: %s", << <<102,111,114,109,97,116>>, "date-time" >>) >>

(***************************************************************************)
(* The path and method keys of the paths block.                            *)
(***************************************************************************)
\* How many operations a program of SpecGroups adds.
MaxGrouped == 3

\* Operations of two routes, with methods in and outside the table of
\* methodWeights.
GroupOps ==
    { NewOperation(m, p, "", NoType, Nothing, Nothing) :
          m \in {M_GET, M_DELETE, M_HEAD, M_OPTIONS}, p \in {P_a, P_u} }

\* sa.Add(op), for up to MaxGrouped operations.
AddGrouped ==
    \E op \in GroupOps :
        /\ Len(sa.operations) < MaxGrouped
        /\ sa' = AddOn(sa, op)
        /\ UNCHANGED <<yaml, dest, buf, route, walk, added>>

NextGroups == AddGrouped \/ Build

\* Programs that add up to three operations of two routes.
SpecGroups == Init /\ [][NextGroups]_vars

\* The path keys of the paths block, in the order of the text.
PathKeys(y) == Indices(y, LAMBDA i : i \in PathsBlock(y) /\ y[i][1] = 1)

\* The method keys under the path key at line k, in the order of the text.
MethodKeys(y, k) ==
    LET under == BlockAt(y, k)
        ks == Indices(under, LAMBDA i : under[i][1] = 2)
    IN [n \in 1..Len(ks) |-> under[ks[n]][3][1]]

\* Sequence v has no element twice.
NoRepeat(v) == \A i, j \in 1..Len(v) : v[i] = v[j] => i = j

\* C27: in the text, each translated path of the registry is a path key
\* exactly once, and under each path key each method of the operations of
\* that path is a method key exactly once.
C27_PathAndMethodKeysOnce ==
    Fresh =>
        LET ks == PathKeys(yaml)
        IN /\ NoRepeat([n \in 1..Len(ks) |-> yaml[ks[n]][3][1]])
           /\ { yaml[ks[n]][3][1] : n \in 1..Len(ks) }
                  = { sa.operations[i].Path : i \in 1..Len(sa.operations) }
           /\ \A n \in 1..Len(ks) :
                  /\ NoRepeat(MethodKeys(yaml, ks[n]))
                  /\ { MethodKeys(yaml, ks[n])[j] : j \in 1..Len(MethodKeys(yaml, ks[n])) }
                         = { sa.operations[i].Method :
                                 i \in { j \in 1..Len(sa.operations) :
                                             sa.operations[j].Path = yaml[ks[n]][3][1] } }

(***************************************************************************)
(* SelectMap with a callback that keeps every operation as it is.          *)
(***************************************************************************)
\* Operations of predeclared field types, and one whose response has fields
\* of derived types.
CopyOps ==
    { NewOperation(M_GET, P_u, "", NoType, AsValue(TUser), Nothing),
      NewOperation(M_POST, P_u, "", PtrTo(TUser), Nothing, AsValue(TErrorModel)),
      AddTags(NewOperation(M_GET, P_ab, "", NoType, Nothing, Nothing), <<"admin">>),
      NewOperation(M_GET, P_a, "", NoType, AsValue(TRuled), Nothing) }

\* A program adds its operations before it derives a registry.
AddCopied == \E op \in CopyOps : dest = <<>> /\ Add(op)

\* dest = SelectMap(sa, func(op Operation) *Operation { return &op })
SelectKeep == SelectMap(FnKeep)

NextCopy == AddCopied \/ Describe \/ SelectKeep

\* Programs that build a registry and copy it with SelectMap.
SpecCopy == Init /\ [][NextCopy]_vars

\* C28: the registry SelectMap returns for a callback that returns every
\* operation unchanged renders as its source does: when BuildYAML returns
\* for the source, it returns for the result, with the same text.
C28_IdentityCopyRenders ==
    dest # <<>> /\ ~WriteYAMLPanics(sa) =>
        /\ ~WriteYAMLPanics(dest[1])
        /\ BuildYAML(dest[1]) = BuildYAML(sa)

\* The copy has the kind rules of its source.
C28_KindRulesCopied == dest # <<>> => dest[1].dataTypesForKinds = sa.dataTypesForKinds

\* Where every field has a rule for its exact type, the copy renders as its
\* source does.
C28_ExactRulesSuffice ==
    /\ dest # <<>>
    /\ ~WriteYAMLPanics(sa)
    /\ \A i \in 1..Len(sa.operations) : sa.operations[i].Responses[1].Field.Type # TRuled
    => /\ ~WriteYAMLPanics(dest[1])
       /\ BuildYAML(dest[1]) = BuildYAML(sa)

(***************************************************************************)
(* Add with any Operation.                                                 *)
(***************************************************************************)
\* Routes with and without empty segments and segments of deleted bytes.
AnyPaths ==
    { <<47>>, <<>>, <<47,97>>, <<47,97,47>>, <<47,97,47,47,98>>, <<47,47>>, <<47,45>>, <<47,58>>, <<47,97,47,58,105,100>>, <<47,97,45,98>>, <<47,97,47,58,47,98>> }

AnyOps ==
    { NewOperation(m, p, "", NoType, Nothing, Nothing) : m \in {M_GET, M_POST}, p \in AnyPaths }

\* sa.Add(op) for any Operation, with the outcome of the call:
\* toInternalOperation runs before the append, so a panic of
\* NewOperationID leaves the registry as it was.
TryAdd ==
    \E op \in AnyOps :
        /\ Len(sa.operations) < MaxOps
        /\ added' = [op |-> op, panicked |-> NewOperationIDPanics(op)]
        /\ sa' = IF NewOperationIDPanics(op) THEN sa ELSE AddOn(sa, op)
        /\ UNCHANGED <<yaml, dest, buf, route, walk>>

NextAny == TryAdd

\* Programs that add operations of any route.
SpecAny == Init /\ [][NextAny]_vars

\* C29: no call of Add panics: NewOperationID returns an id for every
\* method and path, the root path, the empty path and paths with an empty
\* segment or a segment of deleted bytes only among them.
C29_AddNeverPanics == ~added.panicked

\* The routes of AnyPaths that Add panics on.
C29_PanickingPaths ==
    added.panicked <=>
        /\ added.op # <<>>
        /\ added.op.Path \in { <<47>>, <<>>, <<47,97,47,47,98>>, <<47,47>>, <<47,45>>, <<47,58>>, <<47,97,47,58,47,98>> }

(***************************************************************************)
(* Emission leaves the registry alone.                                     *)
(***************************************************************************)
\* Operations that are stored in the order they are added, sorted or not.
RepeatOps ==
    { NewOperation(M_GET, P_u, "", NoType, AsValue(TUser), Nothing),
      NewOperation(M_POST, P_a, "", PtrTo(TUser), Nothing, AsValue(TErrorModel)),
      AddTags(NewOperation(M_GET, P_a, "", NoType, AsValue(TResponse), Nothing), <<"admin">>) }

\* Nothing has been emitted yet.
Unbuilt == yaml = <<>> /\ buf = NoWrite

\* A program sets its registry up before it emits the document.
AddRepeat == \E op \in RepeatOps : Unbuilt /\ Add(op)

DescribeUnbuilt == Unbuilt /\ Describe

DefineUnbuilt == Unbuilt /\ DefineCustom

NextRepeat == AddRepeat \/ DescribeUnbuilt \/ DefineUnbuilt \/ Build \/ Write

\* Programs that set a registry up and then emit the document, again and
\* again.
SpecRepeat == Init /\ [][NextRepeat]_vars

====
